---- MODULE Spec2Model ----
(***************************************************************************)
(* Model of LibraryManager (src/app.js), the store of a small library      *)
(* circulation tracker: a catalog of books, a roster of students, the      *)
(* active loans and the loan history, each persisted under its own         *)
(* localStorage key on every mutation.                                     *)
(*                                                                         *)
(* Strings are modelled as sequences of one-character strings, so that     *)
(* the id pattern /^B(\d+)$/, parseInt and padStart are computed as the    *)
(* code computes them.  Date.now() is the integer clock `now`; an ISO      *)
(* timestamp is the clock reading it encodes.  The free-text fields that   *)
(* no operation reads (title, author, publisher, name, note, addedDate)    *)
(* are not part of the records.                                            *)
(*                                                                         *)
(* exportData returns the store's own arrays, not copies.  `snap` is the   *)
(* object it returned last, as a caller holding it reads it now, together  *)
(* with what it read when it was returned.                                 *)
(***************************************************************************)
EXTENDS Integers, Sequences, FiniteSets, TLC

VARIABLES books, students, loans, loanHistory, storage, now, last, snap

vars == <<books, students, loans, loanHistory, storage, now, last, snap>>

(***************************************************************************)
(* Bounds of the model.                                                    *)
(***************************************************************************)
MaxBooks == 2
MaxStudents == 2
MaxHistory == 2
MaxTime == 1

\* largest numeric suffix a generated book id may carry
MaxIdNum == MaxBooks

\* largest student number a generated number may reach
MaxNumber == MaxStudents

\* longest list handed to addStudentsBulk
MaxBulk == MaxStudents

\* Length of one calendar day in clock units.
DayLen == 2

\* Default loan period of loanBook (days = 14).
DefaultDays == 14

\* Width of the zero padding of a generated book id.
PadWidth == 3

(***************************************************************************)
(* Strings.                                                                *)
(***************************************************************************)
Digits == <<"0", "1", "2", "3", "4", "5", "6", "7", "8", "9">>

IsDigit(c) == \E i \in 1..10 : Digits[i] = c

DigitVal(c) == (CHOOSE i \in 1..10 : Digits[i] = c) - 1

\* /^B(\d+)$/
MatchesBDigits(id) ==
    /\ Len(id) >= 2
    /\ id[1] = "B"
    /\ \A i \in 2..Len(id) : IsDigit(id[i])

RECURSIVE ParseDigits(_)
ParseDigits(ds) ==
    IF ds = <<>> THEN 0
    ELSE 10 * ParseDigits(SubSeq(ds, 1, Len(ds) - 1)) + DigitVal(ds[Len(ds)])

\* Numbers are IEEE doubles: every integer up to 2^53 is a number, and of
\* the integers of the next binade only the even ones are.  The width is
\* scaled down from 53 bits.
SignificandBits == 10

Exact == 2 ^ SignificandBits

\* the number an integer of 0..2 * Exact rounds to (ties go to the even
\* significand)
toNumber(n) ==
    IF n <= Exact \/ n % 2 = 0 THEN n
    ELSE IF (n + 1) % 4 = 0 THEN n + 1 ELSE n - 1

\* parseInt(match[1]) for an id that matches the pattern
parseIntSuffix(id) == toNumber(ParseDigits(SubSeq(id, 2, Len(id))))

RECURSIVE NumToString(_)
NumToString(n) ==
    IF n < 10 THEN <<Digits[n + 1]>>
    ELSE NumToString(n \div 10) \o <<Digits[(n % 10) + 1]>>

RECURSIVE padStart(_, _)
padStart(s, width) == IF Len(s) >= width THEN s ELSE padStart(<<"0">> \o s, width)

(***************************************************************************)
(* Inputs.                                                                 *)
(***************************************************************************)
NoId == <<>>
B001 == <<"B", "0", "0", "1">>
B002 == <<"B", "0", "0", "2">>

\* ids a caller may put into bookData.id (the empty string is falsy)
SuppliedIds == {NoId, B001}

\* studentData.number: given = FALSE stands for null / undefined
StudentInputs == { [given |-> FALSE, number |-> 0] }

DaysInputs == {DefaultDays}

NoStudent == -1
\* student ids a caller may name: every clock reading, and one id no student has
StudentIdArgs == 0..(MaxTime + 1)

(***************************************************************************)
(* Persistence: one document per key; a key may be absent.                 *)
(***************************************************************************)
Absent == [present |-> FALSE, data |-> <<>>]

\* JSON.stringify then localStorage.setItem
saveData(st, key, data) == [st EXCEPT ![key] = [present |-> TRUE, data |-> data]]

\* a key cleared by storing an empty array under it
removeItemStoresEmpty(st, key) == [st EXCEPT ![key] = [present |-> TRUE, data |-> <<>>]]

\* localStorage.removeItem
removeItem(st, key) == [st EXCEPT ![key] = Absent]

\* a document whose text JSON.parse rejects: it carries one more field
Unreadable(doc) == "unreadable" \in DOMAIN doc

\* loadData that takes whatever a present document holds
loadDataAbsentOnly(st, key) == IF st[key].present THEN st[key].data ELSE <<>>

\* loadData(key) || []: an absent key and a text that does not parse give null
loadData(st, key) ==
    IF st[key].present /\ ~Unreadable(st[key]) THEN st[key].data ELSE <<>>

(***************************************************************************)
(* Array helpers.                                                          *)
(***************************************************************************)
\* Array.prototype.findIndex (and find), 0 standing for -1 (undefined)
FindIndex(s, P(_)) ==
    IF \E i \in 1..Len(s) : P(s[i])
    THEN CHOOSE i \in 1..Len(s) : P(s[i]) /\ \A j \in 1..(i - 1) : ~P(s[j])
    ELSE 0

\* Array.prototype.filter
Filter(s, P(_)) == SelectSeq(s, P)

\* Array.prototype.splice(i, 1)
Splice(s, i) == SubSeq(s, 1, i - 1) \o SubSeq(s, i + 1, Len(s))

(***************************************************************************)
(* Books.                                                                  *)
(***************************************************************************)
\* index of the record getBook returns, 0 when it returns undefined
getBookIndex(bks, bookId) ==
    LET P(b) == b.id = bookId IN FindIndex(bks, P)

RECURSIVE MaxSuffix(_, _)
MaxSuffix(bks, max) ==
    IF bks = <<>> THEN max
    ELSE LET id == Head(bks).id
             num == IF MatchesBDigits(id) THEN parseIntSuffix(id) ELSE 0
         IN MaxSuffix(Tail(bks), IF MatchesBDigits(id) /\ num > max THEN num ELSE max)

\* the next id taken from the number of books instead of the largest suffix
generateBookIdByCount(bks) ==
    <<"B">> \o padStart(NumToString(Len(bks) + 1), PadWidth)

generateBookId(bks) ==
    <<"B">> \o padStart(NumToString(toNumber(MaxSuffix(bks, 0) + 1)), PadWidth)

\* bookData.id || this.generateBookId()
newBookId(bks, supplied) == IF supplied # NoId THEN supplied ELSE generateBookId(bks)

\* the duplicate check looking at the books on the shelf only
addBookErrorSkipsLoaned(bks, id) ==
    IF \E i \in 1..Len(bks) : bks[i].id = id /\ bks[i].status = "available"
    THEN "DuplicateIdError" ELSE "none"

addBookError(bks, id) ==
    IF getBookIndex(bks, id) # 0 THEN "DuplicateIdError" ELSE "none"

\* deleteBook without the guard on the status
deleteBookErrorNoGuard(bks, bookId) == "none"

deleteBookError(bks, bookId) ==
    LET i == getBookIndex(bks, bookId)
    IN IF i # 0 /\ bks[i].status = "loaned" THEN "BookOnLoanError" ELSE "none"

removeBook(bks, bookId) ==
    LET P(b) == b.id # bookId IN Filter(bks, P)

\* a status assignment that is lost
setStatusLost(bks, bookId, status) == bks

\* a status assignment that reaches every book of the catalog
setStatusAll(bks, bookId, status) ==
    [i \in 1..Len(bks) |-> [bks[i] EXCEPT !.status = status]]


setStatus(bks, bookId, status) ==
    LET i == getBookIndex(bks, bookId)
    IN IF i # 0 THEN [bks EXCEPT ![i].status = status] ELSE bks

(***************************************************************************)
(* Students.                                                               *)
(***************************************************************************)
\* a null entry of a bulk list: reading studentData.number throws
NullData == [given |-> FALSE, number |-> -1]

BulkEntries == StudentInputs \cup {NullData}

getStudentIndex(sts, studentId) ==
    LET P(st) == st.id = studentId IN FindIndex(sts, P)

RECURSIVE MaxStudentNumber(_, _)
MaxStudentNumber(sts, max) ==
    IF sts = <<>> THEN max
    ELSE MaxStudentNumber(Tail(sts), IF Head(sts).number > max THEN Head(sts).number ELSE max)

generateStudentNumber(sts) == MaxStudentNumber(sts, 0) + 1

\* studentData.number || this.generateStudentNumber()
newStudentNumber(sts, data) ==
    IF data.given /\ data.number # 0 THEN data.number ELSE generateStudentNumber(sts)

\* insert x into a sequence sorted by number, after the elements that do not
\* compare greater (a stable sort keeps equal numbers in their order)
RECURSIVE InsertSorted(_, _)
InsertSorted(s, x) ==
    IF s = <<>> THEN <<x>>
    ELSE IF Head(s).number - x.number > 0 THEN <<x>> \o s
    ELSE <<Head(s)>> \o InsertSorted(Tail(s), x)

\* the roster left in insertion order
sortStudentsOmitted(s) == s

\* this.students.sort((a, b) => a.number - b.number)
RECURSIVE sortStudents(_)
sortStudents(s) ==
    IF s = <<>> THEN <<>>
    ELSE InsertSorted(sortStudents(SubSeq(s, 1, Len(s) - 1)), s[Len(s)])

\* the record addStudent(data) creates and returns at clock reading t
createdStudent(sts, data, t) == [id |-> t, number |-> newStudentNumber(sts, data)]

\* the roster after addStudent(data) at clock reading t
addStudentTo(sts, data, t) ==
    sortStudents(Append(sts, createdStudent(sts, data, t)))

addStudentError(data) == IF data = NullData THEN "TypeError" ELSE "none"

\* addStudentsBulk giving up at the first entry that throws
bulkRosterStopsAtFailure(sts, list, ts) ==
    LET P(d) == addStudentError(d) # "none"
        k == FindIndex(list, P)
        n == IF k = 0 THEN Len(list) ELSE k - 1
        RECURSIVE Added(_, _)
        Added(r, i) == IF i > n THEN r ELSE Added(addStudentTo(r, list[i], ts[i]), i + 1)
    IN Added(sts, 1)

\* the roster after the forEach of addStudentsBulk, entry i being added at
\* clock reading ts[i]; a throwing entry is caught and skipped
RECURSIVE bulkRoster(_, _, _)
bulkRoster(sts, list, ts) ==
    IF list = <<>> THEN sts
    ELSE bulkRoster(IF addStudentError(Head(list)) = "none"
                    THEN addStudentTo(sts, Head(list), Head(ts))
                    ELSE sts,
                    Tail(list), Tail(ts))

\* the results object addStudentsBulk returns, built up entry by entry
EmptyResults == [success |-> <<>>, failed |-> <<>>]

RECURSIVE bulkResults(_, _, _, _)
bulkResults(sts, list, ts, results) ==
    IF list = <<>> THEN results
    ELSE IF addStudentError(Head(list)) = "none"
    THEN bulkResults(addStudentTo(sts, Head(list), Head(ts)), Tail(list), Tail(ts),
                     [results EXCEPT !.success =
                         Append(@, createdStudent(sts, Head(list), Head(ts)))])
    ELSE bulkResults(sts, Tail(list), Tail(ts),
                     [results EXCEPT !.failed =
                         Append(@, [data |-> Head(list), error |-> addStudentError(Head(list))])])

\* the entries of a bulk list that end in the success bucket
bulkSuccess(list) ==
    LET P(d) == addStudentError(d) = "none" IN Filter(list, P)

hasLoans(lns, studentId) == \E i \in 1..Len(lns) : lns[i].studentId = studentId

\* deleteStudent guarding on the first active loan only
deleteStudentErrorFirstLoanOnly(lns, studentId) ==
    IF lns # <<>> /\ lns[1].studentId = studentId
    THEN "StudentHasActiveLoansError" ELSE "none"

\* deleteStudent without the guard on the student's active loans
deleteStudentErrorNoGuard(lns, studentId) == "none"


deleteStudentError(lns, studentId) ==
    IF hasLoans(lns, studentId) THEN "StudentHasActiveLoansError" ELSE "none"

removeStudent(sts, studentId) ==
    LET P(st) == st.id # studentId IN Filter(sts, P)

(***************************************************************************)
(* Loans.                                                                  *)
(***************************************************************************)
\* index of the first active loan of the book, 0 standing for -1
getLoanIndex(lns, bookId) ==
    LET P(l) == l.bookId = bookId IN FindIndex(lns, P)

\* loanBook without the check of the book's status
loanBookErrorNoStatusCheck(bks, sts, bookId, studentId) ==
    IF getBookIndex(bks, bookId) = 0 THEN "BookNotFoundError"
    ELSE IF getStudentIndex(sts, studentId) = 0 THEN "StudentNotFoundError"
    ELSE "none"

\* loanBook without the student lookup
loanBookErrorNoStudentCheck(bks, sts, bookId, studentId) ==
    LET i == getBookIndex(bks, bookId)
    IN IF i = 0 THEN "BookNotFoundError"
       ELSE IF bks[i].status = "loaned" THEN "BookAlreadyLoanedError"
       ELSE "none"

\* loanBook that checks the book's status before it looks the student up
loanBookErrorStatusFirst(bks, sts, bookId, studentId) ==
    LET i == getBookIndex(bks, bookId)
    IN IF i = 0 THEN "BookNotFoundError"
       ELSE IF bks[i].status = "loaned" THEN "BookAlreadyLoanedError"
       ELSE IF getStudentIndex(sts, studentId) = 0 THEN "StudentNotFoundError"
       ELSE "none"


loanBookError(bks, sts, bookId, studentId) ==
    LET i == getBookIndex(bks, bookId)
    IN IF i = 0 THEN "BookNotFoundError"
       ELSE IF getStudentIndex(sts, studentId) = 0 THEN "StudentNotFoundError"
       ELSE IF bks[i].status = "loaned" THEN "BookAlreadyLoanedError"
       ELSE "none"

\* dueDate.setDate(dueDate.getDate() + days)
addDays(date, days) == date + days * DayLen

newLoan(bookId, studentId, days, t) ==
    [id |-> t, bookId |-> bookId, studentId |-> studentId,
     loanDate |-> t, dueDate |-> addDays(t, days)]

loanNotFound(lns, bookId) ==
    IF getLoanIndex(lns, bookId) = 0 THEN "LoanNotFoundError" ELSE "none"

\* a history entry whose loanDate is overwritten by the return time
closeLoanOverwritesLoanDate(loan, t) ==
    [id |-> loan.id, bookId |-> loan.bookId, studentId |-> loan.studentId,
     loanDate |-> t, dueDate |-> loan.dueDate, returnDate |-> t]

\* { ...loan, returnDate }
closeLoan(loan, t) ==
    [id |-> loan.id, bookId |-> loan.bookId, studentId |-> loan.studentId,
     loanDate |-> loan.loanDate, dueDate |-> loan.dueDate, returnDate |-> t]

\* a return that writes no history entry
appendHistoryDrops(hist, loan, t) == hist

\* a history that keeps only the newest entry
appendHistoryReplaces(hist, loan, t) == <<closeLoan(loan, t)>>

\* this.loanHistory.push({ ...loan, returnDate })
appendHistory(hist, loan, t) == Append(hist, closeLoan(loan, t))

(***************************************************************************)
(* The state after construction over an empty localStorage.                *)
(***************************************************************************)
(***************************************************************************)
(* The object exportData returns.  Its four fields are references to the   *)
(* arrays of the store: push, splice and sort change an array in place and *)
(* show through the reference, filter and `= []` give the store a new      *)
(* array and leave the old one to the object.  The book objects of an      *)
(* array the store has replaced by a filtered one are still the store's    *)
(* book objects, and an assignment to book.status shows in both.           *)
(***************************************************************************)
Keys == {"books", "students", "loans", "loanHistory"}

\* exportData with the active loans taken from the wrong field
exportDataLoansFromHistory(bks, sts, lns, hist, t) ==
    [books |-> bks, students |-> sts, loans |-> hist, loanHistory |-> hist,
     exportDate |-> t]

exportData(bks, sts, lns, hist, t) ==
    [books |-> bks, students |-> sts, loans |-> lns, loanHistory |-> hist,
     exportDate |-> t]

\* no object returned yet
\*   value:  the returned object as it reads now
\*   at:     the returned object as it read when exportData returned it
\*   alias:  the fields whose array is still the array of the store
\*   sharedBooks: where books is no alias, the positions of value.books
\*           whose book object is also in the array of the store
\*   handedBack: the object has been given to importData
NoSnapshot ==
    [taken |-> FALSE,
     value |-> exportData(<<>>, <<>>, <<>>, <<>>, 0),
     at |-> exportData(<<>>, <<>>, <<>>, <<>>, 0),
     alias |-> [k \in Keys |-> FALSE],
     sharedBooks |-> {},
     handedBack |-> FALSE]

\* the object as exportData returns it
returned(value) ==
    [taken |-> TRUE, value |-> value, at |-> value,
     alias |-> [k \in Keys |-> TRUE], sharedBooks |-> {}, handedBack |-> FALSE]

\* the books of an array the store no longer holds, after the store's books
\* became bks2 by assignments to book.status
syncStatus(old, shared, bks2) ==
    [i \in 1..Len(old) |->
        IF i \in shared /\ getBookIndex(bks2, old[i].id) # 0
        THEN [old[i] EXCEPT !.status = bks2[getBookIndex(bks2, old[i].id)].status]
        ELSE old[i]]

\* the object after an operation that changed the store's arrays in place
\* into bks2, sts2, lns2 and hist2
mutatedInPlace(sn, bks2, sts2, lns2, hist2) ==
    IF ~sn.taken THEN sn
    ELSE [sn EXCEPT
            !.value.books = IF sn.alias.books THEN bks2
                            ELSE syncStatus(@, sn.sharedBooks, bks2),
            !.value.students = IF sn.alias.students THEN sts2 ELSE @,
            !.value.loans = IF sn.alias.loans THEN lns2 ELSE @,
            !.value.loanHistory = IF sn.alias.loanHistory THEN hist2 ELSE @]

\* the object after an operation that assigned new arrays to the fields
\* keys of the store, the new books array keeping the book objects keptIds
reassigned(sn, keys, keptIds) ==
    IF ~sn.taken THEN sn
    ELSE [sn EXCEPT
            !.alias = [k \in Keys |-> sn.alias[k] /\ k \notin keys],
            !.sharedBooks =
                IF "books" \notin keys THEN @
                ELSE { i \in 1..Len(sn.value.books) :
                          /\ sn.alias.books \/ i \in @
                          /\ sn.value.books[i].id \in keptIds }]

EmptyStorage ==
    [books |-> Absent, students |-> Absent, loans |-> Absent, loanHistory |-> Absent]

\* the last completed call and the error it threw ("none": it returned)
\* seq flips at every call, so that no call is a stuttering step
NoCall == [op |-> "none", err |-> "none", seq |-> 0]

Call(op, err) == [op |-> op, err |-> err, seq |-> 1 - last.seq]

Init ==
    /\ storage = EmptyStorage
    /\ books = loadData(storage, "books")
    /\ students = loadData(storage, "students")
    /\ loans = loadData(storage, "loans")
    /\ loanHistory = loadData(storage, "loanHistory")
    /\ now = 0
    /\ last = NoCall
    /\ snap = NoSnapshot

\* book ids a caller may name
BookIdArgs ==
    {B001, B002} \cup { books[i].id : i \in 1..Len(books) }
                     \cup { loans[i].bookId : i \in 1..Len(loans) }

(***************************************************************************)
(* Operations.                                                             *)
(***************************************************************************)
\* time passes between two calls
Tick ==
    /\ now < MaxTime
    /\ now' = now + 1
    /\ UNCHANGED <<books, students, loans, loanHistory, storage, last, snap>>

\* addBook that pushes the book before it checks for a duplicate id
addBookPushesFirst(supplied) ==
    LET id == newBookId(books, supplied)
        err == addBookError(books, id)
    IN /\ supplied = NoId => MaxSuffix(books, 0) + 1 <= MaxIdNum
       /\ Len(books) < MaxBooks
       /\ last' = Call("addBook", err)
       /\ books' = Append(books, [id |-> id, status |-> "available"])
       /\ IF err = "none"
          THEN storage' = saveData(storage, "books", books')
          ELSE UNCHANGED storage
       /\ UNCHANGED <<students, loans, loanHistory, now>>
       /\ snap' = mutatedInPlace(snap, books', students', loans', loanHistory')

\* the call itself, without the bounds of a specification
addBookCall(supplied) ==
    LET id == newBookId(books, supplied)
        err == addBookError(books, id)
    IN /\ last' = Call("addBook", err)
       /\ IF err = "none"
          THEN /\ books' = Append(books, [id |-> id, status |-> "available"])
               /\ storage' = saveData(storage, "books", books')
          ELSE UNCHANGED <<books, storage>>
       /\ UNCHANGED <<students, loans, loanHistory, now>>
       /\ snap' = mutatedInPlace(snap, books', students', loans', loanHistory')

addBook(supplied) ==
    /\ supplied = NoId => MaxSuffix(books, 0) + 1 <= MaxIdNum
    /\ addBookError(books, newBookId(books, supplied)) = "none" => Len(books) < MaxBooks
    /\ addBookCall(supplied)

deleteBook(bookId) ==
    LET err == deleteBookError(books, bookId)
    IN /\ last' = Call("deleteBook", err)
       /\ IF err = "none"
          THEN /\ books' = removeBook(books, bookId)
               /\ storage' = saveData(storage, "books", books')
               /\ snap' = reassigned(snap, {"books"},
                                     { books'[i].id : i \in 1..Len(books') })
          ELSE UNCHANGED <<books, storage, snap>>
       /\ UNCHANGED <<students, loans, loanHistory, now>>

\* the call itself, without the bounds of a specification
addStudentCall(data) ==
    /\ last' = Call("addStudent", "none")
    /\ students' = addStudentTo(students, data, now)
    /\ storage' = saveData(storage, "students", students')
    /\ UNCHANGED <<books, loans, loanHistory, now>>
    /\ snap' = mutatedInPlace(snap, books', students', loans', loanHistory')

addStudent(data) ==
    /\ Len(students) < MaxStudents
    /\ newStudentNumber(students, data) <= MaxNumber
    /\ addStudentCall(data)

\* the call itself, without the bounds of a specification
addStudentsBulkCall(list, ts) ==
    /\ students' = bulkRoster(students, list, ts)
    /\ last' = Call("addStudentsBulk", "none")
    /\ storage' = IF bulkSuccess(list) # <<>>
                  THEN saveData(storage, "students", students')
                  ELSE storage
    /\ now' = ts[Len(ts)]
    /\ UNCHANGED <<books, loans, loanHistory>>
    /\ snap' = mutatedInPlace(snap, books', students', loans', loanHistory')

addStudentsBulk(list, ts) ==
    /\ Len(students) + Len(bulkSuccess(list)) <= MaxStudents
    /\ \A i \in 1..Len(bulkRoster(students, list, ts)) :
          bulkRoster(students, list, ts)[i].number <= MaxNumber
    /\ addStudentsBulkCall(list, ts)

deleteStudent(studentId) ==
    LET err == deleteStudentError(loans, studentId)
    IN /\ last' = Call("deleteStudent", err)
       /\ IF err = "none"
          THEN /\ students' = removeStudent(students, studentId)
               /\ storage' = saveData(storage, "students", students')
               /\ snap' = reassigned(snap, {"students"}, {})
          ELSE UNCHANGED <<students, storage, snap>>
       /\ UNCHANGED <<books, loans, loanHistory, now>>

loanBook(bookId, studentId, days) ==
    LET err == loanBookError(books, students, bookId, studentId)
    IN /\ last' = Call("loanBook", err)
       /\ IF err = "none"
          THEN /\ loans' = Append(loans, newLoan(bookId, studentId, days, now))
               /\ books' = setStatus(books, bookId, "loaned")
               /\ storage' = saveData(saveData(storage, "loans", loans'), "books", books')
          ELSE UNCHANGED <<loans, books, storage>>
       /\ UNCHANGED <<students, loanHistory, now>>
       /\ snap' = mutatedInPlace(snap, books', students', loans', loanHistory')

\* returnBook that does not write the books after resetting the status
returnBookKeepsBooksUnsaved(bookId) ==
    LET err == loanNotFound(loans, bookId)
        loanIndex == getLoanIndex(loans, bookId)
    IN /\ err = "none" => Len(loanHistory) < MaxHistory
       /\ last' = Call("returnBook", err)
       /\ IF err = "none"
          THEN /\ loanHistory' = appendHistory(loanHistory, loans[loanIndex], now)
               /\ loans' = Splice(loans, loanIndex)
               /\ books' = setStatus(books, bookId, "available")
               /\ storage' = saveData(saveData(storage, "loans", loans'),
                                      "loanHistory", loanHistory')
          ELSE UNCHANGED <<loanHistory, loans, books, storage>>
       /\ UNCHANGED <<students, now>>
       /\ snap' = mutatedInPlace(snap, books', students', loans', loanHistory')

\* the call itself, without the bounds of a specification
returnBookCall(bookId) ==
    LET err == loanNotFound(loans, bookId)
        loanIndex == getLoanIndex(loans, bookId)
    IN /\ last' = Call("returnBook", err)
       /\ IF err = "none"
          THEN /\ loanHistory' = appendHistory(loanHistory, loans[loanIndex], now)
               /\ loans' = Splice(loans, loanIndex)
               /\ books' = setStatus(books, bookId, "available")
               /\ storage' = saveData(saveData(saveData(storage, "loans", loans'),
                                               "books", books'),
                                      "loanHistory", loanHistory')
          ELSE UNCHANGED <<loanHistory, loans, books, storage>>
       /\ UNCHANGED <<students, now>>
       /\ snap' = mutatedInPlace(snap, books', students', loans', loanHistory')

returnBook(bookId) ==
    /\ loanNotFound(loans, bookId) = "none" => Len(loanHistory) < MaxHistory
    /\ returnBookCall(bookId)

\* deleteLoan that archives the loan as returnBook does
deleteLoanArchives(bookId) ==
    LET err == loanNotFound(loans, bookId)
        loanIndex == getLoanIndex(loans, bookId)
    IN /\ err = "none" => Len(loanHistory) < MaxHistory
       /\ last' = Call("deleteLoan", err)
       /\ IF err = "none"
          THEN /\ loanHistory' = appendHistory(loanHistory, loans[loanIndex], now)
               /\ loans' = Splice(loans, loanIndex)
               /\ books' = setStatus(books, bookId, "available")
               /\ storage' = saveData(saveData(storage, "loans", loans'), "books", books')
          ELSE UNCHANGED <<loanHistory, loans, books, storage>>
       /\ UNCHANGED <<students, now>>
       /\ snap' = mutatedInPlace(snap, books', students', loans', loanHistory')

\* deleteLoan that leaves the book's status as it is
deleteLoanKeepsStatus(bookId) ==
    LET err == loanNotFound(loans, bookId)
        loanIndex == getLoanIndex(loans, bookId)
    IN /\ last' = Call("deleteLoan", err)
       /\ IF err = "none"
          THEN /\ loans' = Splice(loans, loanIndex)
               /\ storage' = saveData(saveData(storage, "loans", loans'), "books", books)
          ELSE UNCHANGED <<loans, storage>>
       /\ UNCHANGED <<books, students, loanHistory, now>>
       /\ snap' = mutatedInPlace(snap, books', students', loans', loanHistory')


deleteLoan(bookId) ==
    LET err == loanNotFound(loans, bookId)
        loanIndex == getLoanIndex(loans, bookId)
    IN /\ last' = Call("deleteLoan", err)
       /\ IF err = "none"
          THEN /\ loans' = Splice(loans, loanIndex)
               /\ books' = setStatus(books, bookId, "available")
               /\ storage' = saveData(saveData(storage, "loans", loans'), "books", books')
          ELSE UNCHANGED <<loans, books, storage>>
       /\ UNCHANGED <<students, loanHistory, now>>
       /\ snap' = mutatedInPlace(snap, books', students', loans', loanHistory')

clearAllData ==
    /\ books' = <<>>
    /\ students' = <<>>
    /\ loans' = <<>>
    /\ loanHistory' = <<>>
    /\ storage' = removeItem(removeItem(removeItem(removeItem(storage, "books"),
                                                   "students"), "loans"), "loanHistory")
    /\ last' = Call("clearAllData", "none")
    /\ snap' = reassigned(snap, Keys, {})
    /\ UNCHANGED now

\* the clock readings of the entries of a bulk list: none before now, none
\* before the reading of the entry ahead of it
BulkTimes(n) ==
    { ts \in [1..n -> now..MaxTime] : \A i \in 1..(n - 1) : ts[i] <= ts[i + 1] }

BulkLists == UNION { [1..n -> BulkEntries] : n \in 1..MaxBulk }

Next ==
    \/ Tick
    \/ \E supplied \in SuppliedIds : addBook(supplied)
    \/ \E bookId \in BookIdArgs : deleteBook(bookId)
    \/ \E data \in StudentInputs : addStudent(data)
    \/ \E list \in BulkLists : \E ts \in BulkTimes(Len(list)) : addStudentsBulk(list, ts)
    \/ \E studentId \in StudentIdArgs : deleteStudent(studentId)
    \/ \E bookId \in BookIdArgs, studentId \in StudentIdArgs, days \in DaysInputs :
           loanBook(bookId, studentId, days)
    \/ \E bookId \in BookIdArgs : returnBook(bookId)
    \/ \E bookId \in BookIdArgs : deleteLoan(bookId)
    \/ clearAllData

Spec == Init /\ [][Next]_vars

(***************************************************************************)
(* importData.  A snapshot names, for each collection, whether it is       *)
(* present and the array it holds; nothing in it is validated.             *)
(***************************************************************************)
Present(arr) == [present |-> TRUE, data |-> arr]

\* importData that takes an empty array for a missing one
importDataSkipsEmpty(data) ==
    LET given(f) == IF f = Present(<<>>) THEN Absent ELSE f
        d == [k \in Keys |-> given(data[k])]
    IN /\ books' = IF d.books.present THEN d.books.data ELSE books
       /\ students' = IF d.students.present THEN d.students.data ELSE students
       /\ loans' = IF d.loans.present THEN d.loans.data ELSE loans
       /\ loanHistory' = IF d.loanHistory.present THEN d.loanHistory.data ELSE loanHistory
       /\ storage' =
             LET s1 == IF d.books.present THEN saveData(storage, "books", books') ELSE storage
                 s2 == IF d.students.present THEN saveData(s1, "students", students') ELSE s1
                 s3 == IF d.loans.present THEN saveData(s2, "loans", loans') ELSE s2
             IN IF d.loanHistory.present THEN saveData(s3, "loanHistory", loanHistory') ELSE s3
       /\ last' = Call("importData", "none")
       /\ UNCHANGED now

\* the call itself, without its effect on a returned object
importDataCall(data) ==
    /\ books' = IF data.books.present THEN data.books.data ELSE books
    /\ students' = IF data.students.present THEN data.students.data ELSE students
    /\ loans' = IF data.loans.present THEN data.loans.data ELSE loans
    /\ loanHistory' = IF data.loanHistory.present THEN data.loanHistory.data ELSE loanHistory
    /\ storage' =
          LET s1 == IF data.books.present THEN saveData(storage, "books", books') ELSE storage
              s2 == IF data.students.present THEN saveData(s1, "students", students') ELSE s1
              s3 == IF data.loans.present THEN saveData(s2, "loans", loans') ELSE s2
          IN IF data.loanHistory.present THEN saveData(s3, "loanHistory", loanHistory') ELSE s3
    /\ last' = Call("importData", "none")
    /\ UNCHANGED now

\* importData of an object that shares nothing with the store
importData(data) ==
    /\ importDataCall(data)
    /\ snap' = reassigned(snap, { k \in Keys : data[k].present }, {})

\* the arrays a backup file may hold for each key
ImportBooks == { Absent }

ImportStudents == { Absent }

ImportLoans == { Absent }

ImportHistory ==
    { Absent, Present(<<>>), Present(<<closeLoan(newLoan(B001, 0, DefaultDays, 0), 0)>>) }

ImportSnapshots ==
    [books : ImportBooks, students : ImportStudents,
     loans : ImportLoans, loanHistory : ImportHistory]

NextImport ==
    \/ Next
    \/ \E data \in ImportSnapshots : importData(data)

SpecImport == Init /\ [][NextImport]_vars

(***************************************************************************)
(* The catalog under caller-supplied and generated ids: addBook alone,     *)
(* with ids of every shape the pattern of generateBookId tells apart.      *)
(***************************************************************************)
MaxBooksIds == 3

B003 == <<"B", "0", "0", "3">>
B004 == <<"B", "0", "0", "4">>

\* bookData.id of the calls: absent, of the form B<digits> with and without
\* leading zeros, and of other forms
IdShapes ==
    { NoId, B001, B003,
      <<"B", "1">>, <<"B", "0", "9">>, <<"B", "9", "9", "9">>,
      <<"B">>, <<"b", "7">>, <<"B", "5", "x">>, <<"X", "8">> }

addBookIds(supplied) ==
    /\ Len(books) < MaxBooksIds
    /\ addBookCall(supplied)

NextIds == \E supplied \in IdShapes : addBookIds(supplied)

SpecIds == Init /\ [][NextIds]_vars


(***************************************************************************)
(* The roster under every kind of studentData.number: addStudent,          *)
(* addStudentsBulk and deleteStudent alone, with numbers that are absent,  *)
(* zero, negative, repeated and out of order.                              *)
(***************************************************************************)
MaxStudentsRich == 3

\* largest student number of a roster of this specification
MaxNumberRich == 5

\* longest list handed to addStudentsBulk in this specification
MaxBulkRich == 2

\* studentData.number of the calls: null, and the integers -1, 0, 1, 3
NumberInputs ==
    { [given |-> FALSE, number |-> 0] } \cup { [given |-> TRUE, number |-> n] : n \in {-1, 0, 1, 3} }

BulkEntriesRich == NumberInputs \cup {NullData}

BulkListsRich == UNION { [1..n -> BulkEntriesRich] : n \in 1..MaxBulkRich }

addStudentRich(data) ==
    /\ Len(students) < MaxStudentsRich
    /\ newStudentNumber(students, data) <= MaxNumberRich
    /\ addStudentCall(data)

addStudentsBulkRich(list, ts) ==
    /\ Len(students) + Len(bulkSuccess(list)) <= MaxStudentsRich
    /\ \A i \in 1..Len(bulkRoster(students, list, ts)) :
          bulkRoster(students, list, ts)[i].number <= MaxNumberRich
    /\ addStudentsBulkCall(list, ts)

NextStudents ==
    \/ Tick
    \/ \E data \in NumberInputs : addStudentRich(data)
    \/ \E list \in BulkListsRich : \E ts \in BulkTimes(Len(list)) : addStudentsBulkRich(list, ts)
    \/ \E studentId \in StudentIdArgs : deleteStudent(studentId)

SpecStudents == Init /\ [][NextStudents]_vars


(***************************************************************************)
(* exportData, and importData of the object exportData returned: a caller  *)
(* keeps the object, runs operations of the store, and hands it back.      *)
(***************************************************************************)
MaxStudentsExport == 1
MaxHistoryExport == 1

exportDataCall ==
    /\ snap' = returned(exportData(books, students, loans, loanHistory, now))
    /\ last' = Call("exportData", "none")
    /\ UNCHANGED <<books, students, loans, loanHistory, storage, now>>

\* one object is followed: the first exportData returns
exportDataOnce ==
    /\ ~snap.taken
    /\ exportDataCall

\* the object as importData reads it: an array, empty or not, is truthy
asImported(value) ==
    [books |-> Present(value.books), students |-> Present(value.students),
     loans |-> Present(value.loans), loanHistory |-> Present(value.loanHistory)]

\* importData(s) for the object s that exportData returned: the store's
\* fields become the arrays of s again
importDataExported ==
    /\ snap.taken
    /\ importDataCall(asImported(snap.value))
    /\ snap' = [snap EXCEPT !.alias = [k \in Keys |-> TRUE], !.sharedBooks = {},
                            !.handedBack = TRUE]

\* the object is handed back once
importDataExportedOnce ==
    /\ ~snap.handedBack
    /\ importDataExported

addStudentExport(data) ==
    /\ Len(students) < MaxStudentsExport
    /\ addStudent(data)

returnBookExport(bookId) ==
    /\ Len(loanHistory) < MaxHistoryExport
    /\ returnBook(bookId)

\* the clock stands still in this specification: every student id is its
\* first reading
StudentIdArgsExport == {0}

NextExport ==
    \/ \E supplied \in {NoId} : addBook(supplied)
    \/ \E bookId \in BookIdArgs : deleteBook(bookId)
    \/ \E data \in StudentInputs : addStudentExport(data)
    \/ \E studentId \in StudentIdArgsExport : deleteStudent(studentId)
    \/ \E bookId \in BookIdArgs, studentId \in StudentIdArgsExport, days \in DaysInputs :
           loanBook(bookId, studentId, days)
    \/ \E bookId \in BookIdArgs : returnBookExport(bookId)
    \/ exportDataOnce
    \/ importDataExportedOnce

SpecExport == Init /\ [][NextExport]_vars


(***************************************************************************)
(* importData of arbitrary objects: every combination of absent, empty and *)
(* non-empty arrays, whose records break the rules the operations of the   *)
(* store keep (a repeated book id, a Loaned book without a loan, a loan    *)
(* of a book and a student that do not exist).                             *)
(***************************************************************************)
ImportBooksWide ==
    { Absent, Present(<<>>),
      Present(<<[id |-> B002, status |-> "loaned"], [id |-> B002, status |-> "available"]>>) }

ImportStudentsWide == { Absent, Present(<<>>), Present(<<[id |-> 1, number |-> 2]>>) }

ImportLoansWide ==
    { Absent, Present(<<>>), Present(<<newLoan(B003, NoStudent, DefaultDays, 0)>>) }

ImportSnapshotsWide ==
    [books : ImportBooksWide, students : ImportStudentsWide,
     loans : ImportLoansWide, loanHistory : ImportHistory]

MaxLoansWide == 2

\* imported books are Available again whatever the loans say, so that the
\* active loans need a bound of their own
loanBookWide(bookId, studentId, days) ==
    /\ Len(loans) < MaxLoansWide
    /\ loanBook(bookId, studentId, days)

NextImportWide ==
    \/ \E supplied \in {NoId} : addBook(supplied)
    \/ \E data \in StudentInputs : addStudentExport(data)
    \/ \E bookId \in BookIdArgs, studentId \in StudentIdArgsExport, days \in DaysInputs :
           loanBookWide(bookId, studentId, days)
    \/ \E bookId \in BookIdArgs : returnBookExport(bookId)
    \/ \E data \in ImportSnapshotsWide : importData(data)

SpecImportWide == Init /\ [][NextImportWide]_vars


(***************************************************************************)
(* Crashes.  An operation writes its keys one after the other; the page    *)
(* may die between two writes, and the next page load constructs a new     *)
(* store over what storage then holds.  Nothing in memory survives.        *)
(***************************************************************************)
\* new LibraryManager(): the four collections are read from storage
constructed ==
    /\ books' = loadData(storage', "books")
    /\ students' = loadData(storage', "students")
    /\ loans' = loadData(storage', "loans")
    /\ loanHistory' = loadData(storage', "loanHistory")
    /\ last' = Call("constructor", "none")
    /\ snap' = NoSnapshot
    /\ UNCHANGED now

\* the page is loaded again between two operations
reload ==
    /\ UNCHANGED storage
    /\ constructed

\* loanBook writing the books before the loans
loanBookWritesBooksFirst(st, lns2, bks2, n) ==
    IF n = 0 THEN st
    ELSE IF n = 1 THEN saveData(st, "books", bks2)
    ELSE saveData(saveData(st, "books", bks2), "loans", lns2)

\* storage after the first n writes of loanBook: loans, then books
loanBookWrites(st, lns2, bks2, n) ==
    IF n = 0 THEN st
    ELSE IF n = 1 THEN saveData(st, "loans", lns2)
    ELSE saveData(saveData(st, "loans", lns2), "books", bks2)

\* storage after the first n writes of returnBook: loans, books, loanHistory
returnBookWrites(st, lns2, bks2, hist2, n) ==
    IF n = 0 THEN st
    ELSE IF n = 1 THEN saveData(st, "loans", lns2)
    ELSE IF n = 2 THEN saveData(saveData(st, "loans", lns2), "books", bks2)
    ELSE saveData(saveData(saveData(st, "loans", lns2), "books", bks2),
                  "loanHistory", hist2)

\* the number of writes of loanBook and of returnBook
LoanBookWriteCount == 2
ReturnBookWriteCount == 3

\* loanBook dies after n of its writes; the page is then loaded again
crashInLoanBook(bookId, studentId, days, n) ==
    /\ loanBookError(books, students, bookId, studentId) = "none"
    /\ Len(loans) < MaxLoansWide
    /\ n < LoanBookWriteCount
    /\ storage' = loanBookWrites(storage,
                                 Append(loans, newLoan(bookId, studentId, days, now)),
                                 setStatus(books, bookId, "loaned"), n)
    /\ constructed

\* returnBook dies after n of its writes; the page is then loaded again
crashInReturnBook(bookId, n) ==
    LET loanIndex == getLoanIndex(loans, bookId)
    IN /\ loanNotFound(loans, bookId) = "none"
       /\ Len(loanHistory) < MaxHistoryExport
       /\ n < ReturnBookWriteCount
       /\ storage' = returnBookWrites(storage,
                                      Splice(loans, loanIndex),
                                      setStatus(books, bookId, "available"),
                                      appendHistory(loanHistory, loans[loanIndex], now), n)
       /\ constructed

NextCrash ==
    \/ \E supplied \in {NoId} : addBook(supplied)
    \/ \E data \in StudentInputs : addStudentExport(data)
    \/ \E bookId \in BookIdArgs, studentId \in StudentIdArgsExport, days \in DaysInputs :
           loanBookWide(bookId, studentId, days)
    \/ \E bookId \in BookIdArgs : returnBookExport(bookId)
    \/ \E bookId \in BookIdArgs, studentId \in StudentIdArgsExport, days \in DaysInputs :
           \E n \in 0..(LoanBookWriteCount - 1) : crashInLoanBook(bookId, studentId, days, n)
    \/ \E bookId \in BookIdArgs :
           \E n \in 0..(ReturnBookWriteCount - 1) : crashInReturnBook(bookId, n)
    \/ reload

SpecCrash == Init /\ [][NextCrash]_vars


(***************************************************************************)
(* Failing writes.  localStorage.setItem may throw (the quota is           *)
(* exceeded); saveData catches the exception, reports it and returns.      *)
(* ok tells whether the write of the call goes through.                    *)
(***************************************************************************)
\* saveData whose setItem throws when ok is FALSE: the key keeps its document
saveDataTry(st, key, data, ok) == IF ok THEN saveData(st, key, data) ELSE st

\* addBook that takes the book back and throws when the write fails
addBookWriteRollsBack(supplied, ok) ==
    LET id == newBookId(books, supplied)
        err == IF addBookError(books, id) # "none" THEN addBookError(books, id)
               ELSE IF ok THEN "none" ELSE "QuotaExceededError"
    IN /\ last' = Call("addBook", err)
       /\ IF err = "none"
          THEN /\ books' = Append(books, [id |-> id, status |-> "available"])
               /\ storage' = saveData(storage, "books", books')
          ELSE UNCHANGED <<books, storage>>
       /\ UNCHANGED <<students, loans, loanHistory, now>>
       /\ snap' = mutatedInPlace(snap, books', students', loans', loanHistory')

addBookWrite(supplied, ok) ==
    LET id == newBookId(books, supplied)
        err == addBookError(books, id)
    IN /\ last' = Call("addBook", err)
       /\ IF err = "none"
          THEN /\ books' = Append(books, [id |-> id, status |-> "available"])
               /\ storage' = saveDataTry(storage, "books", books', ok)
          ELSE UNCHANGED <<books, storage>>
       /\ UNCHANGED <<students, loans, loanHistory, now>>
       /\ snap' = mutatedInPlace(snap, books', students', loans', loanHistory')

deleteBookWrite(bookId, ok) ==
    LET err == deleteBookError(books, bookId)
    IN /\ last' = Call("deleteBook", err)
       /\ IF err = "none"
          THEN /\ books' = removeBook(books, bookId)
               /\ storage' = saveDataTry(storage, "books", books', ok)
               /\ snap' = reassigned(snap, {"books"},
                                     { books'[i].id : i \in 1..Len(books') })
          ELSE UNCHANGED <<books, storage, snap>>
       /\ UNCHANGED <<students, loans, loanHistory, now>>

addStudentWrite(data, ok) ==
    /\ last' = Call("addStudent", "none")
    /\ students' = addStudentTo(students, data, now)
    /\ storage' = saveDataTry(storage, "students", students', ok)
    /\ UNCHANGED <<books, loans, loanHistory, now>>
    /\ snap' = mutatedInPlace(snap, books', students', loans', loanHistory')

addBookQuota(supplied, ok) ==
    /\ supplied = NoId => MaxSuffix(books, 0) + 1 <= MaxIdNum
    /\ addBookError(books, newBookId(books, supplied)) = "none" => Len(books) < MaxBooks
    /\ addBookWrite(supplied, ok)

addStudentQuota(data, ok) ==
    /\ Len(students) < MaxStudents
    /\ newStudentNumber(students, data) <= MaxNumber
    /\ addStudentWrite(data, ok)

NextQuota ==
    \/ \E supplied \in SuppliedIds, ok \in BOOLEAN : addBookQuota(supplied, ok)
    \/ \E bookId \in BookIdArgs, ok \in BOOLEAN : deleteBookWrite(bookId, ok)
    \/ \E data \in StudentInputs, ok \in BOOLEAN : addStudentQuota(data, ok)
    \/ reload

SpecQuota == Init /\ [][NextQuota]_vars


(***************************************************************************)
(* Ranking queries.  The counts object keeps its keys in the order they    *)
(* were first set (ids are not array indices); Array.prototype.sort is     *)
(* stable.                                                                 *)
(***************************************************************************)
\* counts[key] = (counts[key] || 0) + 1 for each key of keys, in order
RECURSIVE tally(_, _)
tally(counts, keys) ==
    IF keys = <<>> THEN counts
    ELSE LET P(e) == e.key = Head(keys)
             i == FindIndex(counts, P)
         IN tally(IF i = 0 THEN Append(counts, [key |-> Head(keys), count |-> 1])
                  ELSE [counts EXCEPT ![i].count = @ + 1],
                  Tail(keys))

\* insert x into a sequence sorted by count, descending, after the entries
\* that do not compare greater under (a, b) => b.count - a.count
RECURSIVE InsertByCount(_, _)
InsertByCount(s, x) ==
    IF s = <<>> THEN <<x>>
    ELSE IF x.count - Head(s).count > 0 THEN <<x>> \o s
    ELSE <<Head(s)>> \o InsertByCount(Tail(s), x)

\* .sort((a, b) => b.count - a.count)
RECURSIVE sortByCount(_)
sortByCount(s) ==
    IF s = <<>> THEN <<>>
    ELSE InsertByCount(sortByCount(SubSeq(s, 1, Len(s) - 1)), s[Len(s)])

\* Array.prototype.slice(0, end)
slice(s, end) ==
    IF end >= 0 THEN SubSeq(s, 1, IF end < Len(s) THEN end ELSE Len(s))
    ELSE SubSeq(s, 1, IF Len(s) + end > 0 THEN Len(s) + end ELSE 0)

\* the ranking with the missing books dropped after the truncation
getPopularBooksSlicesFirst(bks, lns, hist, limit) ==
    LET counts == tally(tally(<<>>, [i \in 1..Len(hist) |-> hist[i].bookId]),
                        [i \in 1..Len(lns) |-> lns[i].bookId])
        items == [i \in 1..Len(counts) |->
                    [found |-> getBookIndex(bks, counts[i].key) # 0,
                     id |-> counts[i].key, count |-> counts[i].count]]
        P(item) == item.found
    IN Filter(slice(sortByCount(items), limit), P)

\* found: getBook(bookId) is not undefined; id: the id of item.book
getPopularBooks(bks, lns, hist, limit) ==
    LET counts == tally(tally(<<>>, [i \in 1..Len(hist) |-> hist[i].bookId]),
                        [i \in 1..Len(lns) |-> lns[i].bookId])
        items == [i \in 1..Len(counts) |->
                    [found |-> getBookIndex(bks, counts[i].key) # 0,
                     id |-> counts[i].key, count |-> counts[i].count]]
        P(item) == item.found
    IN slice(sortByCount(Filter(items, P)), limit)

getTopReaders(sts, lns, hist, limit) ==
    LET counts == tally(tally(<<>>, [i \in 1..Len(hist) |-> hist[i].studentId]),
                        [i \in 1..Len(lns) |-> lns[i].studentId])
        items == [i \in 1..Len(counts) |->
                    [found |-> getStudentIndex(sts, counts[i].key) # 0,
                     id |-> counts[i].key, count |-> counts[i].count]]
        P(item) == item.found
    IN slice(sortByCount(Filter(items, P)), limit)

MaxHistoryRanking == 3

\* the limits of the queries
MaxLimit == 3

returnBookRanking(bookId) ==
    /\ Len(loanHistory) < MaxHistoryRanking
    /\ returnBookCall(bookId)

\* the queries change nothing
getPopularBooksCall ==
    /\ last' = Call("getPopularBooks", "none")
    /\ UNCHANGED <<books, students, loans, loanHistory, storage, now, snap>>

getTopReadersCall ==
    /\ last' = Call("getTopReaders", "none")
    /\ UNCHANGED <<books, students, loans, loanHistory, storage, now, snap>>

\* the ids the queries join on: the callers name books of the catalog and
\* students of the roster
CatalogIds == { books[i].id : i \in 1..Len(books) }

RosterIds == { students[i].id : i \in 1..Len(students) }

NextRanking ==
    \/ Tick
    \/ \E supplied \in {NoId} : addBook(supplied)
    \/ \E bookId \in CatalogIds : deleteBook(bookId)
    \/ \E data \in StudentInputs : addStudent(data)
    \/ \E studentId \in RosterIds : deleteStudent(studentId)
    \/ \E bookId \in CatalogIds, studentId \in RosterIds, days \in DaysInputs :
           loanBook(bookId, studentId, days)
    \/ \E bookId \in CatalogIds : returnBookRanking(bookId)
    \/ getPopularBooksCall
    \/ getTopReadersCall

SpecRanking == Init /\ [][NextRanking]_vars


(***************************************************************************)
(* Due dates.  A date is a clock reading; a calendar day is DayLen         *)
(* readings long (no change of the local clock's offset is modelled), so   *)
(* that setDate(getDate() + days) keeps the time of day.                   *)
(***************************************************************************)
\* loanBook called without its days argument
NoDays == -1

\* loanBook(bookId, studentId, days = 14, ...)
daysOrDefault(days) == IF days = NoDays THEN DefaultDays ELSE days

\* isOverdue that counts the due instant itself as overdue
isOverdueAtDueInstant(dueDate, t) == dueDate <= t

\* new Date(dueDate) < new Date()
isOverdue(dueDate, t) == dueDate < t

\* Math.ceil(x / n) for n > 0; the ceiling of a value in (-1, 0) is zero
Ceil(x, n) == -((-x) \div n)

\* getDaysUntilDue that rounds down
getDaysUntilDueFloor(dueDate, t) == (dueDate - t) \div DayLen

\* Math.ceil((due - now) / (1000 * 60 * 60 * 24))
getDaysUntilDue(dueDate, t) == Ceil(dueDate - t, DayLen)

\* the clock runs until the longest loan is overdue by a whole day
MaxTimeDue == DefaultDays * DayLen + DayLen

DaysInputsDue == {NoDays, 1}

\* the loans that run at the same time
MaxLoansDue == 1

\* time passes while there is little to wait for, or while a loan runs
TickDue ==
    /\ now < MaxTime \/ (loans # <<>> /\ now < MaxTimeDue)
    /\ now' = now + 1
    /\ UNCHANGED <<books, students, loans, loanHistory, storage, last, snap>>

loanBookDue(bookId, studentId, days) ==
    /\ Len(loans) < MaxLoansDue
    /\ loanBook(bookId, studentId, daysOrDefault(days))

\* the queries change nothing
isOverdueCall ==
    /\ last' = Call("isOverdue", "none")
    /\ UNCHANGED <<books, students, loans, loanHistory, storage, now, snap>>

getDaysUntilDueCall ==
    /\ last' = Call("getDaysUntilDue", "none")
    /\ UNCHANGED <<books, students, loans, loanHistory, storage, now, snap>>

NextDue ==
    \/ TickDue
    \/ \E supplied \in {NoId} : addBook(supplied)
    \/ \E data \in StudentInputs : addStudentExport(data)
    \/ \E bookId \in CatalogIds, studentId \in RosterIds, days \in DaysInputsDue :
           loanBookDue(bookId, studentId, days)
    \/ \E bookId \in CatalogIds : deleteLoan(bookId)
    \/ isOverdueCall
    \/ getDaysUntilDueCall

SpecDue == Init /\ [][NextDue]_vars


(***************************************************************************)
(* The borrow-history signal.                                              *)
(***************************************************************************)
\* hasStudentBorrowedBook whose history flag is also set by an active loan
hasStudentBorrowedBookEither(lns, hist, studentId, bookId) ==
    LET match(loan) == loan.studentId = studentId /\ loan.bookId = bookId
    IN [current |-> FindIndex(lns, match) # 0,
        history |-> FindIndex(lns, match) # 0 \/ FindIndex(hist, match) # 0]

\* this.loans.some(...), this.loanHistory.some(...)
hasStudentBorrowedBook(lns, hist, studentId, bookId) ==
    LET match(loan) == loan.studentId = studentId /\ loan.bookId = bookId
    IN [current |-> FindIndex(lns, match) # 0,
        history |-> FindIndex(hist, match) # 0]

\* the query changes nothing
hasStudentBorrowedBookCall ==
    /\ last' = Call("hasStudentBorrowedBook", "none")
    /\ UNCHANGED <<books, students, loans, loanHistory, storage, now, snap>>

NextBorrowed ==
    \/ Tick
    \/ \E supplied \in {NoId} : addBook(supplied)
    \/ \E data \in StudentInputs : addStudent(data)
    \/ \E bookId \in BookIdArgs, studentId \in StudentIdArgs, days \in DaysInputs :
           loanBook(bookId, studentId, days)
    \/ \E bookId \in BookIdArgs : returnBook(bookId)
    \/ hasStudentBorrowedBookCall

SpecBorrowed == Init /\ [][NextBorrowed]_vars


(***************************************************************************)
(* Reloading over a storage that something else may have damaged.          *)
(***************************************************************************)
\* the text under a key is damaged outside the store: what is left of it
\* does not parse
garble(key) ==
    /\ storage[key].present
    /\ ~Unreadable(storage[key])
    /\ storage' = [storage EXCEPT ![key] = [present |-> TRUE, data |-> storage[key].data,
                                            unreadable |-> TRUE]]
    /\ UNCHANGED <<books, students, loans, loanHistory, now, last, snap>>

NextReload ==
    \/ \E supplied \in {NoId} : addBook(supplied)
    \/ \E data \in StudentInputs : addStudentExport(data)
    \/ \E bookId \in BookIdArgs, studentId \in StudentIdArgsExport, days \in DaysInputs :
           loanBookWide(bookId, studentId, days)
    \/ \E bookId \in BookIdArgs : returnBookExport(bookId)
    \/ clearAllData
    \/ \E key \in Keys : garble(key)
    \/ reload

SpecReload == Init /\ [][NextReload]_vars


(***************************************************************************)
(* Statistics.                                                             *)
(***************************************************************************)
\* getStats whose available count is the number of all books
getStatsAvailableIsTotal(bks, lns, t) ==
    LET overdue(loan) == isOverdue(loan.dueDate, t)
    IN [totalBooks |-> Len(bks),
        availableBooks |-> Len(bks),
        loanedBooks |-> Len(lns),
        overdueBooks |-> Len(Filter(lns, overdue))]

getStats(bks, lns, t) ==
    LET available(b) == b.status = "available"
        overdue(loan) == isOverdue(loan.dueDate, t)
    IN [totalBooks |-> Len(bks),
        availableBooks |-> Len(Filter(bks, available)),
        loanedBooks |-> Len(lns),
        overdueBooks |-> Len(Filter(lns, overdue))]

\* the query changes nothing
getStatsCall ==
    /\ last' = Call("getStats", "none")
    /\ UNCHANGED <<books, students, loans, loanHistory, storage, now, snap>>

\* short loans, and a clock that runs until the second of them is overdue
DaysInputsStats == {1}

MaxTimeStats == 2 * DayLen + 1

TickStats ==
    /\ now < MaxTimeStats
    /\ now' = now + 1
    /\ UNCHANGED <<books, students, loans, loanHistory, storage, last, snap>>

NextStats ==
    \/ TickStats
    \/ \E supplied \in {NoId} : addBook(supplied)
    \/ \E bookId \in CatalogIds : deleteBook(bookId)
    \/ \E data \in StudentInputs : addStudentExport(data)
    \/ \E bookId \in CatalogIds, studentId \in RosterIds, days \in DaysInputsStats :
           loanBook(bookId, studentId, days)
    \/ \E bookId \in CatalogIds : returnBookExport(bookId)
    \/ \E bookId \in CatalogIds : deleteLoan(bookId)
    \/ getStatsCall

SpecStats == Init /\ [][NextStats]_vars


(***************************************************************************)
(* Book ids up to the largest suffix the number type counts exactly.       *)
(***************************************************************************)
\* the ids B<Exact - 1> and B<Exact>
BExactMinusOne == <<"B">> \o NumToString(Exact - 1)

BExact == <<"B">> \o NumToString(Exact)

IdShapesWide ==
    { NoId, <<"B", "1">>, <<"B", "0", "1">>, <<"B", "0", "0", "0", "3">>, <<"X", "8">>,
      BExactMinusOne, BExact }

NextIdsWide == \E supplied \in IdShapesWide : addBookIds(supplied)

SpecIdsWide == Init /\ [][NextIdsWide]_vars


(***************************************************************************)
(* Crashes next to every operation on loans: loanBook, returnBook and      *)
(* deleteLoan, with deleteBook to show what a Loaned book blocks.          *)
(***************************************************************************)
NextLoanCrash ==
    \/ \E supplied \in {NoId} : addBook(supplied)
    \/ \E bookId \in BookIdArgs : deleteBook(bookId)
    \/ \E data \in StudentInputs : addStudentExport(data)
    \/ \E bookId \in BookIdArgs, studentId \in StudentIdArgsExport, days \in DaysInputs :
           loanBookWide(bookId, studentId, days)
    \/ \E bookId \in BookIdArgs : returnBookExport(bookId)
    \/ \E bookId \in BookIdArgs : deleteLoan(bookId)
    \/ \E bookId \in BookIdArgs, studentId \in StudentIdArgsExport, days \in DaysInputs :
           \E n \in 0..(LoanBookWriteCount - 1) : crashInLoanBook(bookId, studentId, days, n)
    \/ \E bookId \in BookIdArgs :
           \E n \in 0..(ReturnBookWriteCount - 1) : crashInReturnBook(bookId, n)
    \/ reload

SpecLoanCrash == Init /\ [][NextLoanCrash]_vars


(***************************************************************************)
(* The operations next to every query.  A query reads the collections and  *)
(* returns; what it builds (filter, map, sort of the mapped array) is new. *)
(***************************************************************************)
getBookCall ==
    /\ last' = Call("getBook", "none")
    /\ UNCHANGED <<books, students, loans, loanHistory, storage, now, snap>>

searchBooksCall ==
    /\ last' = Call("searchBooks", "none")
    /\ UNCHANGED <<books, students, loans, loanHistory, storage, now, snap>>

getStudentCall ==
    /\ last' = Call("getStudent", "none")
    /\ UNCHANGED <<books, students, loans, loanHistory, storage, now, snap>>

getLoanByBookIdCall ==
    /\ last' = Call("getLoanByBookId", "none")
    /\ UNCHANGED <<books, students, loans, loanHistory, storage, now, snap>>

getStudentLoansCall ==
    /\ last' = Call("getStudentLoans", "none")
    /\ UNCHANGED <<books, students, loans, loanHistory, storage, now, snap>>

getStudentLoanHistoryCall ==
    /\ last' = Call("getStudentLoanHistory", "none")
    /\ UNCHANGED <<books, students, loans, loanHistory, storage, now, snap>>

NextFrame ==
    \/ \E supplied \in {NoId} : addBook(supplied)
    \/ \E bookId \in BookIdArgs : deleteBook(bookId)
    \/ \E data \in StudentInputs : addStudentExport(data)
    \/ \E studentId \in StudentIdArgsExport : deleteStudent(studentId)
    \/ \E bookId \in BookIdArgs, studentId \in StudentIdArgsExport, days \in DaysInputs :
           loanBook(bookId, studentId, days)
    \/ \E bookId \in BookIdArgs : returnBookExport(bookId)
    \/ \E bookId \in BookIdArgs : deleteLoan(bookId)
    \/ getBookCall
    \/ searchBooksCall
    \/ getStudentCall
    \/ getLoanByBookIdCall
    \/ getStudentLoansCall
    \/ getStudentLoanHistoryCall
    \/ hasStudentBorrowedBookCall
    \/ isOverdueCall
    \/ getDaysUntilDueCall
    \/ getStatsCall
    \/ getPopularBooksCall
    \/ getTopReadersCall
    \/ exportDataOnce

SpecFrame == Init /\ [][NextFrame]_vars


(***************************************************************************)
(* Vocabulary of the properties.                                           *)
(***************************************************************************)
\* a call completed in this step
Called(op) == last'.seq # last.seq /\ last'.op = op

\* the active loans that reference a book id
LoansOf(lns, bookId) == { j \in 1..Len(lns) : lns[j].bookId = bookId }

IsPrefix(s, t) == Len(s) <= Len(t) /\ SubSeq(t, 1, Len(s)) = s

InCatalog(bks, bookId) == \E i \in 1..Len(bks) : bks[i].id = bookId

InRoster(sts, studentId) == \E i \in 1..Len(sts) : sts[i].id = studentId

\* the status of the book with this id, for an id that is in the catalog
StatusOf(bks, bookId) == bks[getBookIndex(bks, bookId)].status

\* the operations that validate their arguments and may throw
GuardedOps == {"addBook", "deleteBook", "deleteStudent", "loanBook", "returnBook", "deleteLoan"}

\* the numeric suffixes of the ids of the form B<digits>
Suffixes(bks) ==
    { parseIntSuffix(bks[i].id) : i \in { j \in 1..Len(bks) : MatchesBDigits(bks[j].id) } }

LargestSuffix(bks) ==
    IF Suffixes(bks) = {} THEN 0
    ELSE CHOOSE m \in Suffixes(bks) : \A n \in Suffixes(bks) : n <= m

\* id is 'B' and the decimal numeral of n, padded with zeros to three digits
IsPaddedId(id, n) ==
    /\ MatchesBDigits(id)
    /\ parseIntSuffix(id) = n
    /\ Len(id) - 1 >= 3
    /\ Len(id) - 1 > 3 => id[2] # "0"

\* the largest number of the roster, 0 for an empty roster
LargestNumber(sts) ==
    IF sts = <<>> THEN 0
    ELSE LET ns == { sts[i].number : i \in 1..Len(sts) }
         IN CHOOSE m \in ns : \A n \in ns : n <= m


\* the positions of a bulk list whose entry makes addStudent throw
FailingAt(list) == { i \in 1..Len(list) : list[i] = NullData }

\* the position in the list of the k-th entry whose position is not in F
KthOutside(list, F, k) ==
    CHOOSE i \in (1..Len(list)) \ F : Cardinality({ j \in (1..i) \ F : TRUE }) = k


\* the four collections of an exported object
CollectionsOf(value) == <<value.books, value.students, value.loans, value.loanHistory>>


\* the four collections a store constructed over this storage holds
Persisted(st) ==
    <<loadData(st, "books"), loadData(st, "students"),
      loadData(st, "loans"), loadData(st, "loanHistory")>>

\* how often key occurs among the values f gives to the records of a sequence
Occurrences(s, key, f(_)) == Cardinality({ i \in 1..Len(s) : f(s[i]) = key })

\* r ranks the ids of ids by the counts count[id], best first, up to limit
IsRanking(r, ids, count(_), limit) ==
    /\ Len(r) <= limit
    /\ \A i \in 1..Len(r) : r[i].id \in ids /\ r[i].count = count(r[i].id)
    /\ \A i, j \in 1..Len(r) : r[i].id = r[j].id => i = j
    /\ \A i, j \in 1..Len(r) : i < j => r[i].count >= r[j].count
    /\ \A id \in ids :
          (\A i \in 1..Len(r) : r[i].id # id) =>
             /\ Len(r) = limit
             /\ \A i \in 1..Len(r) : r[i].count >= count(id)


\* the calendar day of a date, and its time of day
Day(t) == t \div DayLen

TimeOfDay(t) == t % DayLen


\* every book with status Loaned has an active loan
LoanedHaveLoans(bks, lns) ==
    \A i \in 1..Len(bks) : bks[i].status = "loaned" => LoansOf(lns, bks[i].id) # {}


\* the queries of the store
Queries ==
    { "getBook", "searchBooks", "getStudent", "getLoanByBookId", "getStudentLoans",
      "getStudentLoanHistory", "hasStudentBorrowedBook", "isOverdue", "getDaysUntilDue",
      "getStats", "getPopularBooks", "getTopReaders", "exportData" }

\* the records of a sequence that do not carry this book id, in their order
OtherBooks(bks, bookId) == LET P(b) == b.id # bookId IN SelectSeq(bks, P)

OtherLoans(lns, bookId) == LET P(l) == l.bookId # bookId IN SelectSeq(lns, P)


(***************************************************************************)
(* C1: in every state reached from an empty store by completed calls       *)
(* (importData, crashes and write failures aside), a book is Loaned if     *)
(* and only if exactly one active loan references its id, an Available     *)
(* book is referenced by no active loan, and no bookId is referenced by    *)
(* more than one active loan.                                              *)
(***************************************************************************)
C1_StatusMatchesLoans ==
    /\ \A i \in 1..Len(books) :
          /\ books[i].status = "loaned" <=> Cardinality(LoansOf(loans, books[i].id)) = 1
          /\ books[i].status = "available" => LoansOf(loans, books[i].id) = {}
    /\ \A j, k \in 1..Len(loans) : loans[j].bookId = loans[k].bookId => j = k

C1_Witness ==
    /\ last.op = "loanBook" /\ last.err = "none"
    /\ \E i, j \in 1..Len(books) :
          /\ books[i].status = "loaned" /\ LoansOf(loans, books[i].id) # {}
          /\ books[j].status = "available"

(***************************************************************************)
(* C2: while an active loan references book B, loanBook(B, S2) fails with  *)
(* BookAlreadyLoanedError for every student id S2.                         *)
(* The statement as claimed, for every S2 whether or not it is in the      *)
(* roster:                                                                 *)
(***************************************************************************)
C2_Original ==
    [][\A bookId \in BookIdArgs, studentId \in StudentIdArgs, days \in DaysInputs :
          (loanBook(bookId, studentId, days) /\ LoansOf(loans, bookId) # {})
              => last'.err = "BookAlreadyLoanedError"]_vars

(***************************************************************************)
(* C2, amended: while an active loan references book B, loanBook(B, S2)    *)
(* fails: with BookAlreadyLoanedError when S2 is a student of the roster,  *)
(* with StudentNotFoundError when it is not; no loan is added.             *)
(***************************************************************************)
C2_MutualExclusion ==
    [][\A bookId \in BookIdArgs, studentId \in StudentIdArgs, days \in DaysInputs :
          (loanBook(bookId, studentId, days) /\ LoansOf(loans, bookId) # {})
              => /\ last'.err = IF InRoster(students, studentId)
                                THEN "BookAlreadyLoanedError"
                                ELSE "StudentNotFoundError"
                 /\ loans' = loans]_vars

C2_Witness ==
    /\ last.op = "loanBook" /\ last.err = "BookAlreadyLoanedError"
    /\ Len(students) = 2 /\ students[1].id # students[2].id
    /\ loans # <<>>

C4_RoundTrip ==
    [][/\ Called("loanBook") => loanHistory' = loanHistory
       /\ \A bookId \in BookIdArgs :
             ( /\ last.op = "loanBook" /\ last.err = "none"
               /\ loans[Len(loans)].bookId = bookId
               /\ returnBook(bookId) )
             => LET loan == loans[Len(loans)]
                    entry == loanHistory'[Len(loanHistory')]
                IN /\ last'.err = "none"
                   /\ StatusOf(books', bookId) = "available"
                   /\ LoansOf(loans', bookId) = {}
                   /\ Len(loanHistory') = Len(loanHistory) + 1
                   /\ IsPrefix(loanHistory, loanHistory')
                   /\ entry.bookId = bookId
                   /\ entry.studentId = loan.studentId
                   /\ entry.loanDate = loan.loanDate
                   /\ entry.dueDate = loan.dueDate
                   /\ entry.returnDate >= entry.loanDate]_vars

\* a return at a later clock reading than the loan
C4_Witness ==
    /\ last.op = "returnBook" /\ last.err = "none"
    /\ loanHistory # <<>>
    /\ LET entry == loanHistory[Len(loanHistory)]
       IN /\ entry.returnDate > entry.loanDate
          /\ InCatalog(books, entry.bookId)
          /\ StatusOf(books, entry.bookId) = "available"

(***************************************************************************)
(* C5: deleteLoan(B) on a book with an active loan removes that loan,      *)
(* sets B Available and leaves the loan history as it was; deleteLoan(B)   *)
(* fails with LoanNotFoundError when no active loan references B.          *)
(***************************************************************************)
C5_DeleteLoanSilent ==
    [][\A bookId \in BookIdArgs :
          deleteLoan(bookId) =>
              IF LoansOf(loans, bookId) # {}
              THEN /\ last'.err = "none"
                   /\ LoansOf(loans', bookId) = {}
                   /\ Len(loans') = Len(loans) - 1
                   /\ \A j \in 1..Len(loans) :
                         loans[j].bookId # bookId => \E k \in 1..Len(loans') : loans'[k] = loans[j]
                   /\ InCatalog(books', bookId) /\ StatusOf(books', bookId) = "available"
                   /\ loanHistory' = loanHistory
              ELSE /\ last'.err = "LoanNotFoundError"
                   /\ loans' = loans /\ loanHistory' = loanHistory]_vars

C5_Witness ==
    /\ last.op = "deleteLoan" /\ last.err = "none"
    /\ loanHistory = <<>>
    /\ \E i \in 1..Len(books) : books[i].status = "available"
    /\ \E i \in 1..Len(books) : books[i].status = "loaned"

(***************************************************************************)
(* C6: the loan history is append-only across every store operation other  *)
(* than clearAllData: the history before is a prefix of the history after, *)
(* and only a successful returnBook lengthens it, by exactly one entry.    *)
(* The statement as claimed:                                               *)
(***************************************************************************)
C6_Original ==
    [][~Called("clearAllData")
          => /\ IsPrefix(loanHistory, loanHistory')
             /\ loanHistory' # loanHistory
                   => /\ Called("returnBook") /\ last'.err = "none"
                      /\ Len(loanHistory') = Len(loanHistory) + 1
             /\ (Called("returnBook") /\ last'.err = "none")
                   => Len(loanHistory') = Len(loanHistory) + 1]_vars

(***************************************************************************)
(* C6, amended: the loan history is append-only across every store         *)
(* operation other than clearAllData and importData (which replaces the    *)
(* history by the snapshot's); among those, only a successful returnBook   *)
(* lengthens it, by exactly one entry.                                     *)
(***************************************************************************)
C6_AppendOnly ==
    [][(~Called("clearAllData") /\ ~Called("importData"))
          => /\ IsPrefix(loanHistory, loanHistory')
             /\ loanHistory' # loanHistory
                   => /\ Called("returnBook") /\ last'.err = "none"
                      /\ Len(loanHistory') = Len(loanHistory) + 1
             /\ (Called("returnBook") /\ last'.err = "none")
                   => Len(loanHistory') = Len(loanHistory) + 1]_vars

\* a return appends to a history that already holds an entry
C6_Witness ==
    /\ last.op = "returnBook" /\ last.err = "none"
    /\ Len(loanHistory) = 2

(***************************************************************************)
(* C7: the status of a book that stays in the catalog changes only by      *)
(* Available -> Loaned through a successful loanBook and by                *)
(* Loaned -> Available through a successful returnBook, and every          *)
(* completed cycle adds one entry to the history.                          *)
(* The statement as claimed:                                               *)
(***************************************************************************)
C7_Original ==
    [][\A i \in 1..Len(books) :
          (InCatalog(books', books[i].id) /\ StatusOf(books', books[i].id) # books[i].status)
              => \/ /\ books[i].status = "available"
                    /\ Called("loanBook") /\ last'.err = "none"
                 \/ /\ books[i].status = "loaned"
                    /\ Called("returnBook") /\ last'.err = "none"
                    /\ Len(loanHistory') = Len(loanHistory) + 1]_vars

(***************************************************************************)
(* C7, amended (importData aside): the status of a book that stays in the  *)
(* catalog changes only by Available -> Loaned through a successful        *)
(* loanBook and by Loaned -> Available through a successful returnBook or  *)
(* a successful deleteLoan; a cycle closed by returnBook adds one entry to *)
(* the history, a cycle closed by deleteLoan adds none.                    *)
(***************************************************************************)
C7_StateMachine ==
    [][\A i \in 1..Len(books) :
          (InCatalog(books', books[i].id) /\ StatusOf(books', books[i].id) # books[i].status)
              => \/ /\ books[i].status = "available"
                    /\ Called("loanBook") /\ last'.err = "none"
                    /\ loanHistory' = loanHistory
                 \/ /\ books[i].status = "loaned"
                    /\ Called("returnBook") /\ last'.err = "none"
                    /\ Len(loanHistory') = Len(loanHistory) + 1
                 \/ /\ books[i].status = "loaned"
                    /\ Called("deleteLoan") /\ last'.err = "none"
                    /\ loanHistory' = loanHistory]_vars

\* the one book of the catalog went through a cycle closed by returnBook and
\* through a cycle closed by deleteLoan
C7_Witness ==
    /\ last.op = "deleteLoan" /\ last.err = "none"
    /\ Len(books) = 1 /\ books[1].status = "available"
    /\ Len(loanHistory) = 1 /\ loanHistory[1].bookId = books[1].id

(***************************************************************************)
(* C8: deleteBook(id) fails with BookOnLoanError exactly when a book with  *)
(* that id exists and is Loaned; otherwise it succeeds, no book with that  *)
(* id is in the catalog afterwards and every other book is unchanged and   *)
(* in the same relative order (an id not in the catalog: a no-op).         *)
(***************************************************************************)
C8_DeleteBook ==
    [][\A bookId \in BookIdArgs :
          deleteBook(bookId) =>
              LET k == getBookIndex(books, bookId)
                  onLoan == InCatalog(books, bookId) /\ StatusOf(books, bookId) = "loaned"
              IN /\ last'.err = "BookOnLoanError" <=> onLoan
                 /\ onLoan => books' = books
                 /\ ~onLoan => /\ last'.err = "none"
                               /\ ~InCatalog(books', bookId)
                               /\ books' = IF k = 0 THEN books ELSE Splice(books, k)]_vars

\* a book that was lent and returned is deleted, another book stays
C8_Witness ==
    /\ last.op = "deleteBook" /\ last.err = "none"
    /\ Len(books) = 1
    /\ \E h \in 1..Len(loanHistory) : ~InCatalog(books, loanHistory[h].bookId)

(***************************************************************************)
(* C9: deleteStudent(id) fails with StudentHasActiveLoansError exactly     *)
(* when an active loan has that studentId; history entries of the student  *)
(* never block the deletion.                                               *)
(***************************************************************************)
C9_DeleteStudent ==
    [][\A studentId \in StudentIdArgs :
          deleteStudent(studentId) =>
              LET blocked == \E j \in 1..Len(loans) : loans[j].studentId = studentId
              IN /\ last'.err = "StudentHasActiveLoansError" <=> blocked
                 /\ blocked => students' = students
                 /\ ~blocked => /\ last'.err = "none"
                                /\ ~InRoster(students', studentId)]_vars

\* a student with a history entry and no active loan is deleted
C9_Witness ==
    /\ last.op = "deleteStudent" /\ last.err = "none"
    /\ loans # <<>>
    /\ \E h \in 1..Len(loanHistory) : ~InRoster(students, loanHistory[h].studentId)

(***************************************************************************)
(* C10: when addBook, deleteBook, deleteStudent, loanBook, returnBook or   *)
(* deleteLoan fails with one of its errors, the four collections and the   *)
(* four persisted documents are as they were before the call.              *)
(***************************************************************************)
C10_FailureAtomicity ==
    [][(last'.seq # last.seq /\ last'.op \in GuardedOps /\ last'.err # "none")
          => UNCHANGED <<books, students, loans, loanHistory, storage>>]_vars

C10_Witness ==
    /\ last.op = "addBook" /\ last.err = "DuplicateIdError"
    /\ Len(books) = 1
    /\ storage.books = [present |-> TRUE, data |-> books]

(***************************************************************************)
(* C11: addBook without a caller-supplied id succeeds and appends a book   *)
(* whose id is 'B' followed by m + 1 in decimal, zero-padded to at least   *)
(* three digits and no further, where m is the largest numeric suffix      *)
(* among the existing ids of the form B<digits> and 0 when there is none;  *)
(* ids of any other form do not count.  Gaps are not filled.               *)
(***************************************************************************)
C11_GeneratedId ==
    [][addBookCall(NoId) =>
          /\ last'.err = "none"
          /\ Len(books') = Len(books) + 1
          /\ SubSeq(books', 1, Len(books)) = books
          /\ IsPaddedId(books'[Len(books')].id, LargestSuffix(books) + 1)]_vars

C11_Witness ==
    /\ last.op = "addBook" /\ last.err = "none"
    /\ Len(books) = 3
    /\ books[1].id = B001 /\ books[2].id = B003 /\ books[3].id = B004


(***************************************************************************)
(* C12: addBook fails with DuplicateIdError exactly when the resulting id  *)
(* (the caller's, used verbatim, or the generated one) is the id of a book *)
(* of the catalog; otherwise it appends the book with that id and status   *)
(* Available; and in every state reached without importData no two books   *)
(* of the catalog share an id.                                             *)
(***************************************************************************)
C12_UniqueBookIds ==
    [][/\ \A supplied \in SuppliedIds :
             addBook(supplied) =>
                LET id == IF supplied # NoId THEN supplied ELSE generateBookId(books)
                IN /\ last'.err = "DuplicateIdError" <=> InCatalog(books, id)
                   /\ last'.err # "DuplicateIdError" =>
                         /\ last'.err = "none"
                         /\ books' = Append(books, [id |-> id, status |-> "available"])
       /\ \A i, j \in 1..Len(books') : books'[i].id = books'[j].id => i = j]_vars

C12_Witness ==
    /\ last.op = "addBook" /\ last.err = "DuplicateIdError"
    /\ Len(books) = MaxBooks
    /\ \E i \in 1..Len(books) : books[i].id = B001 /\ books[i].status = "loaned"


(***************************************************************************)
(* C13: student ids are fresh and unique: in every reachable state the     *)
(* ids of the students of the roster are pairwise distinct, also for       *)
(* students added at the same clock reading or by one addStudentsBulk      *)
(* batch, so that getStudent(id) finds the student created with that id.   *)
(***************************************************************************)
C13_FreshStudentIds ==
    \A i, j \in 1..Len(students) : students[i].id = students[j].id => i = j


(***************************************************************************)
(* C14: the roster is sorted by number in ascending order after every      *)
(* addStudent and in every state reached by addStudent, addStudentsBulk    *)
(* and deleteStudent; addStudent never rejects a number, repeated numbers  *)
(* included.                                                               *)
(***************************************************************************)
C14_RosterSorted ==
    /\ \A i, j \in 1..Len(students) : i < j => students[i].number <= students[j].number
    /\ last.op = "addStudent" => last.err = "none"

C14_Witness ==
    /\ last.op = "addStudent"
    /\ Len(students) = 3
    /\ students[1].number = students[2].number
    /\ students[3].id < students[1].id


(***************************************************************************)
(* C15: addStudent with an integer number n, 0 included, creates a student *)
(* whose number is n; addStudent without a number creates a student whose  *)
(* number is the largest number of the roster plus one, the largest number *)
(* of an empty roster being 0.                                             *)
(***************************************************************************)
C15_NumberAssignment ==
    [][\A data \in NumberInputs :
          addStudentRich(data) =>
             LET n == IF data.given THEN data.number ELSE LargestNumber(students) + 1
             IN \E k \in 1..Len(students') :
                   /\ students'[k] = [id |-> now, number |-> n]
                   /\ Splice(students', k) = students]_vars


(***************************************************************************)
(* C16: addStudentsBulk(list) never throws and puts every entry in exactly *)
(* one bucket: the failed bucket holds the throwing entries in input       *)
(* order, the success bucket holds, in input order, the record created for *)
(* each other entry, whether or not an earlier entry failed; every record  *)
(* of the success bucket is in the roster afterwards, and the roster grows *)
(* by exactly the size of the success bucket.                              *)
(***************************************************************************)
C16_BulkBuckets ==
    [][\A list \in BulkListsRich : \A ts \in BulkTimes(Len(list)) :
          addStudentsBulkRich(list, ts) =>
             LET r == bulkResults(students, list, ts, EmptyResults)
                 F == FailingAt(list)
             IN /\ last'.err = "none"
                /\ Len(r.success) + Len(r.failed) = Len(list)
                /\ Len(r.failed) = Cardinality(F)
                /\ \A k \in 1..Len(r.failed) :
                      r.failed[k].data = list[KthOutside(list, (1..Len(list)) \ F, k)]
                /\ \A k \in 1..Len(r.success) :
                      /\ r.success[k].id = ts[KthOutside(list, F, k)]
                      /\ \E j \in 1..Len(students') : students'[j] = r.success[k]
                /\ Len(students') = Len(students) + Len(r.success)]_vars

C16_Witness ==
    /\ last.op = "addStudentsBulk" /\ last.err = "none"
    /\ now = MaxTime
    /\ Len(students) = MaxStudentsRich
    /\ \A i \in 1..Len(students) : students[i].id < now


(***************************************************************************)
(* C17: importData(exportData()), in every reachable state, leaves the     *)
(* four collections books, students, loans and loanHistory equal, element  *)
(* for element and in the same order, to what they were before the call.   *)
(***************************************************************************)
C17_ExportImportIdempotent ==
    [][(last.op = "exportData" /\ importDataExported) =>
          <<books', students', loans', loanHistory'>> =
             <<books, students, loans, loanHistory>>]_vars

C17_Witness ==
    /\ last.op = "importData"
    /\ CollectionsOf(snap.value) = CollectionsOf(snap.at)
    /\ books # <<>> /\ students # <<>> /\ loans # <<>> /\ loanHistory # <<>>
    /\ \A k \in Keys : storage[k].present /\ snap.alias[k]

(***************************************************************************)
(* C18: exportData returns a snapshot: operations of the store performed   *)
(* after exportData() do not change the contents of the object it          *)
(* returned, and importData of that object, after any operations, restores *)
(* the four collections to their contents at the time of the export, each  *)
(* book's status included.                                                 *)
(***************************************************************************)
C18_ExportIsSnapshot ==
    snap.taken =>
       /\ CollectionsOf(snap.value) = CollectionsOf(snap.at)
       /\ last.op = "importData" =>
             <<books, students, loans, loanHistory>> = CollectionsOf(snap.at)


(***************************************************************************)
(* C19: importData(snapshot) never fails and, for each of the four         *)
(* collections, replaces it in memory and in persisted storage by the      *)
(* array of the snapshot when the snapshot holds one (an empty array       *)
(* empties it), as it is, without validating references or shape, and      *)
(* leaves it untouched in memory and in storage when the snapshot holds    *)
(* none.                                                                   *)
(***************************************************************************)
C19_ImportFrame ==
    [][\A data \in ImportSnapshotsWide :
          importData(data) =>
             LET before == [books |-> books, students |-> students,
                            loans |-> loans, loanHistory |-> loanHistory]
                 after == [books |-> books', students |-> students',
                           loans |-> loans', loanHistory |-> loanHistory']
             IN /\ last'.err = "none"
                /\ \A k \in Keys :
                      IF data[k].present
                      THEN /\ after[k] = data[k].data
                           /\ storage'[k] = [present |-> TRUE, data |-> data[k].data]
                      ELSE /\ after[k] = before[k]
                           /\ storage'[k] = storage[k]]_vars

C19_Witness ==
    /\ last.op = "importData"
    /\ loans = <<newLoan(B003, NoStudent, DefaultDays, 0)>>
    /\ books = <<[id |-> B001, status |-> "loaned"]>>
    /\ students = <<>> /\ storage.students = Present(<<>>)
    /\ loanHistory # <<>>


(***************************************************************************)
(* C20: after clearAllData, from any reachable state, the four in-memory   *)
(* collections are empty and the four persisted keys are absent; a store   *)
(* loaded from that storage is empty, and the next generated book id is    *)
(* B001.                                                                   *)
(***************************************************************************)
C20_ClearAllData ==
    last.op = "clearAllData" =>
       /\ last.err = "none"
       /\ books = <<>> /\ students = <<>> /\ loans = <<>> /\ loanHistory = <<>>
       /\ \A k \in Keys : ~storage[k].present /\ loadData(storage, k) = <<>>
       /\ newBookId(loadData(storage, "books"), NoId) = B001

C20_Witness ==
    /\ last.op = "clearAllData"
    /\ last.seq = 0
    /\ now = MaxTime
    /\ storage = EmptyStorage


(***************************************************************************)
(* C21: starting from an empty store and with no persistence write         *)
(* failing, after every completed operation each of the four persisted     *)
(* documents equals the in-memory collection of its key, an absent key     *)
(* counting as the empty collection: no operation returns with an          *)
(* in-memory change that it has not written.                               *)
(***************************************************************************)
C21_PersistedEqualsMemory ==
    /\ storage.books.present => storage.books.data = books
    /\ ~storage.books.present => books = <<>>
    /\ storage.students.present => storage.students.data = students
    /\ ~storage.students.present => students = <<>>
    /\ storage.loans.present => storage.loans.data = loans
    /\ ~storage.loans.present => loans = <<>>
    /\ storage.loanHistory.present => storage.loanHistory.data = loanHistory
    /\ ~storage.loanHistory.present => loanHistory = <<>>

C21_Witness ==
    /\ last.op = "returnBook" /\ last.err = "none"
    /\ \A k \in Keys : storage[k].present
    /\ loans # <<>> /\ loanHistory # <<>>
    /\ \E i \in 1..Len(books) : books[i].id = loanHistory[1].bookId /\ books[i].status = "available"


(***************************************************************************)
(* C22: persistence is per key and not atomic.  A crash inside loanBook    *)
(* after the loans document is written and before the books document is    *)
(* written leaves a persisted active loan for a book whose persisted       *)
(* status is Available; a crash inside returnBook of a Loaned book with    *)
(* one loan, after the loans document is written and before the books      *)
(* document is written, leaves a persisted Loaned book with no persisted   *)
(* active loan.  The store constructed afterwards holds exactly that.      *)
(***************************************************************************)
C22_CrashWindow ==
    [][/\ \A bookId \in BookIdArgs, studentId \in StudentIdArgsExport, days \in DaysInputs :
             crashInLoanBook(bookId, studentId, days, 1) =>
                /\ LoansOf(storage'.loans.data, bookId) # {}
                /\ LoansOf(loans', bookId) # {}
                /\ StatusOf(loadData(storage', "books"), bookId) = "available"
                /\ StatusOf(books', bookId) = "available"
       /\ \A bookId \in BookIdArgs :
             (/\ crashInReturnBook(bookId, 1)
              /\ InCatalog(books, bookId)
              /\ StatusOf(books, bookId) = "loaned"
              /\ Cardinality(LoansOf(loans, bookId)) = 1) =>
                /\ LoansOf(loadData(storage', "loans"), bookId) = {}
                /\ LoansOf(loans', bookId) = {}
                /\ StatusOf(loadData(storage', "books"), bookId) = "loaned"
                /\ StatusOf(books', bookId) = "loaned"]_vars

C22_Witness ==
    /\ last.op = "constructor"
    /\ \E i, j \in 1..Len(books) :
          /\ books[i].status = "available" /\ LoansOf(loans, books[i].id) # {}
          /\ books[j].status = "loaned" /\ LoansOf(loans, books[j].id) = {}
    /\ Persisted(storage) = <<books, students, loans, loanHistory>>


C24_Rankings ==
    \A limit \in 0..MaxLimit :
       LET bookOf(l) == l.bookId
           studentOf(l) == l.studentId
           bookCount(id) == Occurrences(loanHistory, id, bookOf) + Occurrences(loans, id, bookOf)
           readerCount(id) == Occurrences(loanHistory, id, studentOf)
                                 + Occurrences(loans, id, studentOf)
           bookIds == { id \in { books[i].id : i \in 1..Len(books) } : bookCount(id) > 0 }
           readerIds == { id \in { students[i].id : i \in 1..Len(students) } : readerCount(id) > 0 }
       IN /\ IsRanking(getPopularBooks(books, loans, loanHistory, limit),
                       bookIds, bookCount, limit)
          /\ IsRanking(getTopReaders(students, loans, loanHistory, limit),
                       readerIds, readerCount, limit)

C24_Witness ==
    /\ last.op = "getPopularBooks"
    /\ Len(loanHistory) = 3
    /\ loanHistory[1].bookId = loanHistory[2].bookId
    /\ loanHistory[3].bookId # loanHistory[1].bookId
    /\ loans = <<>>
    /\ LET r == getPopularBooks(books, loans, loanHistory, 2)
       IN /\ Len(r) = 2
          /\ r[1].id = loanHistory[1].bookId /\ r[1].count = 2
          /\ r[2].id = loanHistory[3].bookId /\ r[2].count = 1


(***************************************************************************)
(* C25: a successful loanBook(B, S, days) records loanDate = the current   *)
(* time and dueDate = the same time of day, days calendar days later (14   *)
(* when days is omitted), and the new loan is not overdue at its creation; *)
(* after every step isOverdue(dueDate) of an active loan is true exactly   *)
(* when the current time is strictly later than dueDate.                   *)
(***************************************************************************)
C25_DueDate ==
    [][ /\ \A bookId \in CatalogIds, studentId \in RosterIds, days \in DaysInputsDue :
              loanBookDue(bookId, studentId, days) /\ last'.err = "none" =>
                 LET loan == loans'[Len(loans')]
                     n == IF days = NoDays THEN DefaultDays ELSE days
                 IN /\ Len(loans') = Len(loans) + 1
                    /\ loan.loanDate = now
                    /\ Day(loan.dueDate) = Day(now) + n
                    /\ TimeOfDay(loan.dueDate) = TimeOfDay(now)
                    /\ ~isOverdue(loan.dueDate, now')
        /\ \A i \in 1..Len(loans') :
              /\ isOverdue(loans'[i].dueDate, now') <=> now' > loans'[i].dueDate
              /\ now' = loans'[i].dueDate => ~isOverdue(loans'[i].dueDate, now')
      ]_vars

C25_Witness ==
    /\ last.op = "isOverdue"
    /\ Len(loans) = 1
    /\ Day(loans[1].dueDate) = Day(loans[1].loanDate) + DefaultDays
    /\ now = loans[1].dueDate
    /\ ~isOverdue(loans[1].dueDate, now)

(***************************************************************************)
(* C26 (as stated): getDaysUntilDue(dueDate) is negative whenever          *)
(* isOverdue(dueDate) is true, also when the loan is overdue by less than  *)
(* one day.                                                                *)
(***************************************************************************)
C26_NegativeWhenOverdue ==
    \A i \in 1..Len(loans) :
       isOverdue(loans[i].dueDate, now) => getDaysUntilDue(loans[i].dueDate, now) < 0

(***************************************************************************)
(* C26 (amended): getDaysUntilDue(dueDate) is the ceiling of               *)
(* (dueDate - now) in whole days; it is at most zero whenever the loan is  *)
(* overdue, and negative exactly when the loan is overdue by one whole day *)
(* or more.                                                                *)
(***************************************************************************)
C26_DaysUntilDue ==
    \A i \in 1..Len(loans) :
       LET due == loans[i].dueDate
           d == getDaysUntilDue(due, now)
       IN /\ d * DayLen >= due - now
          /\ (d - 1) * DayLen < due - now
          /\ isOverdue(due, now) => d <= 0
          /\ d < 0 <=> now - due >= DayLen

C26_Witness ==
    /\ last.op = "getDaysUntilDue"
    /\ Len(loans) = 1
    /\ isOverdue(loans[1].dueDate, now)
    /\ now - loans[1].dueDate < DayLen
    /\ getDaysUntilDue(loans[1].dueDate, now) = 0


(***************************************************************************)
(* C27: after every step hasStudentBorrowedBook(studentId, bookId) returns *)
(* current = some active loan has this studentId and this bookId, and      *)
(* history = some history entry has them, each whatever the other is; and  *)
(* loanBook(B, S) of a student S of the roster on an Available book B      *)
(* succeeds and appends the loan, whatever the history flag of (S, B) is.  *)
(***************************************************************************)
C27_BorrowSignal ==
    [][ /\ \A studentId \in StudentIdArgs, bookId \in BookIdArgs :
              LET r == hasStudentBorrowedBook(loans', loanHistory', studentId, bookId)
              IN /\ r.current <=> \E i \in 1..Len(loans') :
                                     /\ loans'[i].studentId = studentId
                                     /\ loans'[i].bookId = bookId
                 /\ r.history <=> \E i \in 1..Len(loanHistory') :
                                     /\ loanHistory'[i].studentId = studentId
                                     /\ loanHistory'[i].bookId = bookId
        /\ \A bookId \in BookIdArgs, studentId \in StudentIdArgs, days \in DaysInputs :
              /\ loanBook(bookId, studentId, days)
              /\ InCatalog(books, bookId)
              /\ StatusOf(books, bookId) = "available"
              /\ InRoster(students, studentId)
              => /\ last'.err = "none"
                 /\ Len(loans') = Len(loans) + 1
                 /\ loans'[Len(loans')].bookId = bookId
                 /\ loans'[Len(loans')].studentId = studentId
      ]_vars

C27_Witness ==
    /\ last.op = "loanBook"
    /\ last.err = "none"
    /\ loans # <<>>
    /\ LET loan == loans[Len(loans)]
           r == hasStudentBorrowedBook(loans, loanHistory, loan.studentId, loan.bookId)
       IN /\ r.current
          /\ r.history
          /\ \E i \in 1..Len(loanHistory) :
                ~hasStudentBorrowedBook(loans, loanHistory, loanHistory[i].studentId,
                                        loanHistory[i].bookId).current


(***************************************************************************)
(* C28: the ids of the active loans and of the history entries are         *)
(* pairwise distinct, also for loans created at the same clock reading.    *)
(***************************************************************************)
C28_UniqueLoanIds ==
    LET all == loans \o loanHistory
    IN \A i, j \in 1..Len(all) : all[i].id = all[j].id => i = j


(***************************************************************************)
(* C29: loanBook reports one error, chosen in the order book lookup,       *)
(* student lookup, book status: BookNotFoundError when the book is missing *)
(* (also when the student is missing too), StudentNotFoundError when the   *)
(* book exists and the student does not, whatever the book's status, and   *)
(* BookAlreadyLoanedError when both exist and the book is Loaned; a        *)
(* failing call changes nothing.                                           *)
(***************************************************************************)
C29_LoanBookErrorOrder ==
    [][ \A bookId \in BookIdArgs, studentId \in StudentIdArgs, days \in DaysInputs :
           loanBook(bookId, studentId, days) =>
              /\ last'.err = IF ~InCatalog(books, bookId) THEN "BookNotFoundError"
                             ELSE IF ~InRoster(students, studentId)
                                  THEN "StudentNotFoundError"
                             ELSE IF StatusOf(books, bookId) = "loaned"
                                  THEN "BookAlreadyLoanedError"
                             ELSE "none"
              /\ last'.err # "none" =>
                    UNCHANGED <<books, students, loans, loanHistory, storage>>
      ]_vars

C29_Witness ==
    /\ last.op = "loanBook"
    /\ last.err = "StudentNotFoundError"
    /\ books # <<>>
    /\ \A i \in 1..Len(books) : books[i].status = "loaned"


(***************************************************************************)
(* C30: a store constructed over the storage holds, for each of the four   *)
(* keys, the array persisted under it, and the empty collection when the   *)
(* key is absent or its text is unreadable; so when no key is unreadable,  *)
(* constructing a new store after completed operations gives the four      *)
(* collections the store had, in the same order.                           *)
(***************************************************************************)
C30_Reload ==
    [][ reload =>
           LET held == [books |-> books', students |-> students', loans |-> loans',
                        loanHistory |-> loanHistory']
           IN /\ \A key \in Keys :
                    held[key] = IF storage[key].present /\ ~Unreadable(storage[key])
                                THEN storage[key].data
                                ELSE <<>>
              /\ (\A key \in Keys : ~Unreadable(storage[key])) =>
                    UNCHANGED <<books, students, loans, loanHistory>>
      ]_vars

C30_Witness ==
    /\ last.op = "constructor"
    /\ Unreadable(storage.loans)
    /\ storage.loans.data # <<>>
    /\ loans = <<>>
    /\ ~storage.loanHistory.present
    /\ loanHistory = <<>>
    /\ storage.books.present
    /\ ~Unreadable(storage.books)
    /\ books # <<>>
    /\ books = storage.books.data


(***************************************************************************)
(* C31: in every state every active loan's bookId is the id of a book of   *)
(* the catalog and its studentId is the id of a student of the roster.     *)
(***************************************************************************)
C31_ActiveLoansReferToRecords ==
    \A i \in 1..Len(loans) :
       /\ InCatalog(books, loans[i].bookId)
       /\ InRoster(students, loans[i].studentId)

C31_Witness ==
    /\ last.op = "deleteStudent"
    /\ last.err = "none"
    /\ loans # <<>>
    /\ \E i \in 1..Len(loanHistory) : ~InRoster(students, loanHistory[i].studentId)


(***************************************************************************)
(* C32: in every state getStats gives totalBooks = the number of books,    *)
(* availableBooks = the number of Available books, loanedBooks = the       *)
(* number of active loans = the number of Loaned books, overdueBooks = the *)
(* number of active loans past their due date, with availableBooks +       *)
(* loanedBooks = totalBooks and overdueBooks <= loanedBooks.               *)
(***************************************************************************)
C32_Stats ==
    LET s == getStats(books, loans, now)
    IN /\ s.totalBooks = Len(books)
       /\ s.availableBooks =
             Cardinality({ i \in 1..Len(books) : books[i].status = "available" })
       /\ s.loanedBooks = Len(loans)
       /\ s.loanedBooks = Cardinality({ i \in 1..Len(books) : books[i].status = "loaned" })
       /\ s.overdueBooks = Cardinality({ i \in 1..Len(loans) : now > loans[i].dueDate })
       /\ s.availableBooks + s.loanedBooks = s.totalBooks
       /\ s.overdueBooks <= s.loanedBooks

C32_Witness ==
    /\ last.op = "getStats"
    /\ getStats(books, loans, now) =
          [totalBooks |-> 2, availableBooks |-> 0, loanedBooks |-> 2, overdueBooks |-> 1]


(***************************************************************************)
(* C33: in every catalog, also one that holds supplied ids such as B1, B01 *)
(* or B0003 or ids of other forms, the id that addBook would generate is   *)
(* the id of no book of the catalog, so that an addBook relying on it does *)
(* not fail with DuplicateIdError.                                         *)
(***************************************************************************)
C33_GeneratedIdIsFresh == ~InCatalog(books, generateBookId(books))


(***************************************************************************)
(* C34: the id that addBook generates is the id of no book that was in the *)
(* catalog since the last clearAllData, deleted books included; so it is   *)
(* the bookId of no history entry, every history entry having been written *)
(* for a book of the catalog.                                              *)
(***************************************************************************)
C34_BookIdsNotReused ==
    [][addBook(NoId) /\ last'.err = "none" =>
          \A i \in 1..Len(loanHistory) :
             loanHistory[i].bookId # books'[Len(books')].id]_vars


(***************************************************************************)
(* C35: a successful deleteStudent(id) removes at most one student record: *)
(* the roster after the call is the roster before it without the one       *)
(* student of that id, the others unchanged and in the same order (and the *)
(* roster itself when no student has the id).                              *)
(***************************************************************************)
C35_DeleteStudentRemovesOne ==
    [][\A studentId \in StudentIdArgs :
          deleteStudent(studentId) /\ last'.err = "none" =>
             IF InRoster(students, studentId)
             THEN \E i \in 1..Len(students) :
                     /\ students[i].id = studentId
                     /\ students' = Splice(students, i)
             ELSE students' = students]_vars


C37_Frames ==
    [][ /\ \A op \in Queries :
              Called(op) => UNCHANGED <<books, students, loans, loanHistory>>
        /\ Called("addBook") \/ Called("deleteBook") =>
              UNCHANGED <<students, loans, loanHistory>>
        /\ Called("addStudent") \/ Called("deleteStudent") =>
              UNCHANGED <<books, loans, loanHistory>>
        /\ \A bookId \in BookIdArgs, studentId \in StudentIdArgsExport, days \in DaysInputs :
              loanBook(bookId, studentId, days) =>
                 /\ UNCHANGED <<students, loanHistory>>
                 /\ Len(books') = Len(books)
                 /\ OtherBooks(books', bookId) = OtherBooks(books, bookId)
        /\ \A bookId \in BookIdArgs :
              returnBookExport(bookId) \/ deleteLoan(bookId) =>
                 /\ UNCHANGED students
                 /\ Len(books') = Len(books)
                 /\ OtherBooks(books', bookId) = OtherBooks(books, bookId)
                 /\ OtherLoans(loans', bookId) = OtherLoans(loans, bookId)
      ]_vars

C37_Witness ==
    /\ last.op = "returnBook"
    /\ last.err = "none"
    /\ loanHistory # <<>>
    /\ loans # <<>>
    /\ \E i, j \in 1..Len(books) :
          /\ books[i].id = loanHistory[Len(loanHistory)].bookId
          /\ books[i].status = "available"
          /\ books[j].status = "loaned"


====
